---- MODULE Spec2Model ----
(***************************************************************************)
(* bugsink-mcp: an MCP server exposing the Bugsink REST API as tools.      *)
(* The model follows src/src/index.ts (the 0.2.0 server, lines 343-895)    *)
(* and src/src/bugsink-client.ts (the HTTP client).                        *)
(*                                                                         *)
(* Conventions.  A data string (a field of an entity, an argument) is a    *)
(* TLA+ string, "" the empty one.  A string built by concatenation or by a *)
(* template literal (a URL, a header, a line of output) is the sequence of *)
(* its fragments: the literal pieces and the interpolated values, numbers  *)
(* converted by ToString.  A text joined by '\n' is the sequence of its    *)
(* lines.  A JSON object is a function whose DOMAIN is the set of keys     *)
(* that are present.  A value whose runtime type matters (tool arguments,  *)
(* request bodies) is tagged: [s |-> ..] a string, [n |-> ..] a number,    *)
(* [b |-> ..] a boolean, [z |-> ..] null, [u |-> ..] undefined.            *)
(***************************************************************************)
EXTENDS Integers, Sequences, FiniteSets, TLC

\* ------------------------------------------------------------------ bounds
\* Invocations the host sends in one run.
MaxServed == 2
\* Items in one page of results returned by the remote service.
MaxResults == 2
\* Invocations the host keeps open at once when it pipelines them.
MaxInFlight == 2

VARIABLES
  env,        \* process.env: the keys that are set, each a string (a sequence of fragments)
  phase,      \* position of the module's top-level code and of main()
  exitCode,   \* 0 while the process runs, the status passed to process.exit otherwise
  client,     \* the BugsinkClient's private fields, <<>> before construction
  registered, \* names of the tools registered with server.tool
  stderr,     \* lines written with console.error
  inv,        \* the tool invocations the host has open, by request slot: the tool and
              \* its arguments, the handler's position (pc), the HTTP requests issued
              \* for it (reqs) and the place of the first among all requests sent
              \* (seq), the remote's answer (resp), what the awaited client method
              \* ended with (ret), the response object as the handler leaves it
              \* (held), and the tool result
  served,     \* the kinds of the results that went back to the host, in order
  wire        \* HTTP requests issued since the process started

vars == <<env, phase, exitCode, client, registered, stderr, inv, served, wire>>

\* --------------------------------------------------------------- strings
EmptyStr == <<>>

\* JavaScript truthiness of a string held as fragments: '' is falsy.
TruthyStr(s) == s # EmptyStr

\* o.k is present and truthy, o.k a string held as fragments
TruthyKey(o, k) == k \in DOMAIN o /\ TruthyStr(o[k])

\* The constructor keeping the base URL as it is given
StripTrailingSlash_Keep(s) == s

\* s.replace(/\/$/, ''): one trailing slash removed
StripTrailingSlash(s) ==
  IF Len(s) > 0 /\ s[Len(s)] = "/" THEN SubSeq(s, 1, Len(s) - 1) ELSE s

\* ------------------------------------------------------------- environment
UrlValues ==
  { EmptyStr, <<"https://bugsink.example">>, <<"https://bugsink.example", "/">>,
    <<"https://bugsink.example", "/", "/">> }
TokenValues == { EmptyStr, <<"tok-A">>, <<"tok-B">> }

EnvKeys == {"BUGSINK_URL", "BUGSINK_TOKEN"}

Environments ==
  { e \in UNION { [K -> UrlValues \cup TokenValues] : K \in SUBSET EnvKeys } :
      /\ ("BUGSINK_URL" \in DOMAIN e => e["BUGSINK_URL"] \in UrlValues)
      /\ ("BUGSINK_TOKEN" \in DOMAIN e => e["BUGSINK_TOKEN"] \in TokenValues) }

\* The check written as !BUGSINK_URL alone
ConfigMissing_UrlOnly(e) == ~TruthyKey(e, "BUGSINK_URL")

\* !BUGSINK_URL || !BUGSINK_TOKEN
ConfigMissing(e) ==
  ~TruthyKey(e, "BUGSINK_URL") \/ ~TruthyKey(e, "BUGSINK_TOKEN")

UsageLines ==
  << <<"Error: BUGSINK_URL and BUGSINK_TOKEN environment variables are required">>,
     EmptyStr,
     <<"Set them in your MCP configuration:">>,
     <<"  \"env\": {">>,
     <<"    \"BUGSINK_URL\": \"https://your-bugsink-instance.com\",">>,
     <<"    \"BUGSINK_TOKEN\": \"your-api-token\"">>,
     <<"  }">> >>

\* new BugsinkClient({ baseUrl, apiToken })
NewBugsinkClient(config) ==
  [ baseUrl  |-> StripTrailingSlash(config.baseUrl),
    apiToken |-> config.apiToken ]

\* obj with key k set to v
With(obj, k, v) == [ j \in DOMAIN obj \cup {k} |-> IF j = k THEN v ELSE obj[j] ]

\* ------------------------------------------------------ tagged JSON values
StrV(x)   == [s |-> x]
NumV(x)   == [n |-> x]
BoolV(x)  == [b |-> x]
NullV     == [z |-> "null"]
Undefined == [u |-> "undefined"]

IsStr(v)  == "s" \in DOMAIN v
IsNum(v)  == "n" \in DOMAIN v
IsBool(v) == "b" \in DOMAIN v

\* JavaScript truthiness of a tagged value
Truthy(v) ==
  CASE IsStr(v)  -> v.s # ""
    [] IsNum(v)  -> v.n # 0
    [] IsBool(v) -> v.b
    [] OTHER     -> FALSE

\* ------------------------------------------------------- parameter schemas
\* One descriptor per zod field: z.number(), z.string(), z.boolean(), z.enum([..]),
\* with .optional() and .default(d).
NoEnum == {}
Required(t)        == [type |-> t, enum |-> NoEnum, optional |-> FALSE, default |-> Undefined]
Optional(t)        == [type |-> t, enum |-> NoEnum, optional |-> TRUE,  default |-> Undefined]
OptionalEnum(e)    == [type |-> "enum", enum |-> e, optional |-> TRUE,  default |-> Undefined]
Defaulted(t, d)    == [type |-> t, enum |-> NoEnum, optional |-> TRUE,  default |-> d]
DefaultedEnum(e, d) == [type |-> "enum", enum |-> e, optional |-> TRUE, default |-> d]

ProjectVisibility == {"joinable", "discoverable", "team_members"}
TeamVisibility    == {"joinable", "discoverable", "hidden"}
SortModes         == {"digest_order", "last_seen"}
SortOrders        == {"asc", "desc"}

DefaultIssueLimit == 25
DefaultEventLimit == 10

NoParams == [k \in {} |-> Required("string")]

ToolNames ==
  { "list_projects", "list_teams", "list_issues", "get_issue", "list_events",
    "get_event", "test_connection", "get_project", "create_project",
    "update_project", "create_team", "update_team", "get_stacktrace",
    "list_releases", "get_release", "create_release" }

\* The parameter schema given to server.tool for each tool.
Schema(tool) ==
  CASE tool = "list_issues" ->
         [ project_id |-> Required("number"),
           status     |-> Optional("string"),
           limit      |-> Defaulted("number", NumV(DefaultIssueLimit)),
           sort       |-> OptionalEnum(SortModes),
           order      |-> OptionalEnum(SortOrders) ]
    [] tool = "get_issue"      -> [ issue_id |-> Required("string") ]
    [] tool = "list_events" ->
         [ issue_id |-> Required("string"),
           limit    |-> Defaulted("number", NumV(DefaultEventLimit)) ]
    [] tool = "get_event"      -> [ event_id |-> Required("string") ]
    [] tool = "get_project"    -> [ project_id |-> Required("number") ]
    [] tool = "create_project" ->
         [ team_id             |-> Required("string"),
           name                |-> Required("string"),
           visibility          |-> DefaultedEnum(ProjectVisibility, StrV("team_members")),
           alert_on_new_issue  |-> Defaulted("boolean", BoolV(TRUE)),
           alert_on_regression |-> Defaulted("boolean", BoolV(TRUE)),
           alert_on_unmute     |-> Defaulted("boolean", BoolV(TRUE)) ]
    [] tool = "update_project" ->
         [ project_id                |-> Required("number"),
           name                      |-> Optional("string"),
           visibility                |-> OptionalEnum(ProjectVisibility),
           alert_on_new_issue        |-> Optional("boolean"),
           alert_on_regression       |-> Optional("boolean"),
           alert_on_unmute           |-> Optional("boolean"),
           retention_max_event_count |-> Optional("number") ]
    [] tool = "create_team" ->
         [ name       |-> Required("string"),
           visibility |-> DefaultedEnum(TeamVisibility, StrV("discoverable")) ]
    [] tool = "update_team" ->
         [ team_id    |-> Required("string"),
           name       |-> Optional("string"),
           visibility |-> OptionalEnum(TeamVisibility) ]
    [] tool = "get_stacktrace" -> [ event_id |-> Required("string") ]
    [] tool = "list_releases"  -> [ project_id |-> Required("number") ]
    [] tool = "get_release"    -> [ release_id |-> Required("string") ]
    [] tool = "create_release" ->
         [ project_id |-> Required("number"),
           version    |-> Required("string"),
           timestamp  |-> Optional("string") ]
    [] OTHER -> NoParams

\* A z.enum field taken as z.string()
FieldAccepts_AnyString(f, v) ==
  CASE f.type = "number"  -> IsNum(v)
    [] f.type = "string"  -> IsStr(v)
    [] f.type = "boolean" -> IsBool(v)
    [] f.type = "enum"    -> IsStr(v)
    [] OTHER              -> FALSE

\* A value satisfies a field's type.
FieldAccepts(f, v) ==
  CASE f.type = "number"  -> IsNum(v)
    [] f.type = "string"  -> IsStr(v)
    [] f.type = "boolean" -> IsBool(v)
    [] f.type = "enum"    -> IsStr(v) /\ v.s \in f.enum
    [] OTHER              -> FALSE

\* The argument object parses against the schema: every key that is present has
\* the field's type, every key that is absent is optional.
ValidArgs(schema, args) ==
  \A k \in DOMAIN schema :
    IF k \in DOMAIN args THEN FieldAccepts(schema[k], args[k]) ELSE schema[k].optional

\* The schemas without their .default(...)
ParsedArgs_NoDefaults(schema, args) ==
  [ k \in { j \in DOMAIN schema : j \in DOMAIN args } |-> args[k] ]

\* The parsed object handed to the handler: the declared keys that are present, and
\* the defaulted keys that are absent, with their default.
ParsedArgs(schema, args) ==
  LET keys == { k \in DOMAIN schema : k \in DOMAIN args \/ schema[k].default # Undefined }
  IN [ k \in keys |-> IF k \in DOMAIN args THEN args[k] ELSE schema[k].default ]

\* Destructuring a key of the parsed object: undefined when absent.
Arg(a, k) == IF k \in DOMAIN a THEN a[k] ELSE Undefined

\* --------------------------------------------------------------- HTTP layer
ApiRoot == <<"/api/canonical/0">>

\* HTTP status codes the remote service answers with: the 2xx ones, and the others.
SuccessCodes == {200, 201, 299}
FailureCodes == {199, 300, 404, 500}

\* response.ok taken to be "the status is 200"
ResponseOk_Only200(status) == status = 200

\* response.ok
ResponseOk(status) == status >= 200 /\ status <= 299

\* What a client method asks of fetch: the endpoint (path fragments, then the
\* URLSearchParams as <<key, value>> pairs in insertion order) and the options.
Call(method, path, params, body) ==
  [method |-> method, path |-> path, params |-> params, body |-> body]

NoQuery == <<>>
NoBody    == [k \in {} |-> Undefined]

\* JSON.stringify of an object of tagged values: keys whose value is undefined are left out.
JsonStringify(obj) == [ k \in { j \in DOMAIN obj : obj[j] # Undefined } |-> obj[k] ]

Get(path)            == Call("GET", path, NoQuery, NoBody)
GetQuery(path, params) == Call("GET", path, params, NoBody)

RECURSIVE QueryString(_)
\* params.toString(): k1=v1&k2=v2...
QueryString(params) ==
  IF params = <<>> THEN <<>>
  ELSE LET p == Head(params)
       IN  <<p[1], "=", p[2]>> \o
           (IF Len(params) > 1 THEN <<"&">> ELSE <<>>) \o QueryString(Tail(params))

\* The endpoint string handed to fetch.
Endpoint(call) ==
  IF call.params = <<>> THEN call.path ELSE call.path \o <<"?">> \o QueryString(call.params)

\* BugsinkClient.fetch, up to the await: the one request put on the wire.
FetchRequest(c, call) ==
  [ url     |-> c.baseUrl \o ApiRoot \o Endpoint(call),
    method  |-> call.method,
    headers |-> [ Authorization |-> <<"Bearer ">> \o c.apiToken,
                  ContentType   |-> <<"application/json">> ],
    params  |-> call.params,
    body    |-> call.body ]

\* What an awaited call ends with: an exception (of a kind, with a message) or a value.
Threw(kind, message) == [threw |-> TRUE,  kind |-> kind,  message |-> message, value |-> <<>>]
Returned(value)      == [threw |-> FALSE, kind |-> "none", message |-> <<>>,   value |-> value]

\* Answers of the remote service.  net: the request failed below HTTP (fetch
\* rejects).  Otherwise a status and a body, the body either text that is not
\* JSON or a JSON value.
NetworkFailure   == [net |-> TRUE,  status |-> 0, isJson |-> FALSE, text |-> "", json |-> <<>>]
TextAnswer(st, t) == [net |-> FALSE, status |-> st, isJson |-> FALSE, text |-> t, json |-> <<>>]
JsonAnswer(st, j) == [net |-> FALSE, status |-> st, isJson |-> TRUE,  text |-> "", json |-> j]

ApiErrorMessage(status, errorText) ==
  <<"Bugsink API error (", ToString(status), "): ", errorText>>

\* fetch putting the headers of the failed request in the error it throws
FetchResult_HeadersInError(resp) ==
  IF resp.net THEN Threw("network", <<"fetch failed: ", "Bearer ">> \o client.apiToken)
  ELSE IF ~ResponseOk(resp.status)
       THEN Threw("api", ApiErrorMessage(resp.status, resp.text) \o <<" Bearer ">> \o client.apiToken)
       ELSE IF resp.isJson THEN Returned(resp.json)
            ELSE Threw("parse", <<"Unexpected token in JSON">>)

\* BugsinkClient.fetch, after the await.
FetchResult(resp) ==
  IF resp.net THEN Threw("network", <<"fetch failed">>)
  ELSE IF ~ResponseOk(resp.status)
       THEN Threw("api", ApiErrorMessage(resp.status, resp.text))
       ELSE IF resp.isJson THEN Returned(resp.json)
            ELSE Threw("parse", <<"Unexpected token in JSON">>)

\* ------------------------------------------------------------ client methods
listProjects == Get(<<"/projects/">>)

getProject(projectId) == Get(<<"/projects/", ToString(projectId), "/">>)

listTeams == Get(<<"/teams/">>)

\* listIssues setting status whether or not the caller gave one
listIssues_EmptyStatus(projectId, options) ==
  LET p0 == << <<"project", ToString(projectId)>> >>
      p1 == Append(p0, <<"status", IF Truthy(options.status) THEN options.status.s ELSE "">>)
      p2 == IF Truthy(options.limit)
            THEN Append(p1, <<"limit", ToString(options.limit.n)>>) ELSE p1
  IN GetQuery(<<"/issues/">>, p2)

\* options: the object literal the caller passes, every key a tagged value or undefined
listIssues(projectId, options) ==
  LET p0 == << <<"project", ToString(projectId)>> >>
      p1 == IF Truthy(options.status)
            THEN Append(p0, <<"status", options.status.s>>) ELSE p0
      p2 == IF Truthy(options.limit)
            THEN Append(p1, <<"limit", ToString(options.limit.n)>>) ELSE p1
  IN GetQuery(<<"/issues/">>, p2)

getIssue(issueId) == Get(<<"/issues/", issueId, "/">>)

listEvents(issueId, options) ==
  LET p0 == << <<"issue", issueId>> >>
      p1 == IF Truthy(options.limit)
            THEN Append(p0, <<"limit", ToString(options.limit.n)>>) ELSE p0
  IN GetQuery(<<"/events/">>, p1)

getEvent(eventId) == Get(<<"/events/", eventId, "/">>)

\* testConnection without its catch block
testConnection_NoCatch(outcome) ==
  IF outcome.threw THEN outcome
  ELSE Returned([ success |-> TRUE,
                  message |-> <<"Connected successfully. Found ",
                                ToString(Len(outcome.value.results)), " project(s).">> ])

\* BugsinkClient.testConnection, after its awaited listProjects: the try/catch.
\* Whatever the try block ends with, the method returns a value.
testConnection(outcome) ==
  IF outcome.threw
  THEN Returned([success |-> FALSE, message |-> outcome.message])
  ELSE IF "results" \in DOMAIN outcome.value
       THEN Returned([ success |-> TRUE,
                       message |-> <<"Connected successfully. Found ",
                                     ToString(Len(outcome.value.results)), " project(s).">> ])
       ELSE Returned([ success |-> FALSE,
                       message |-> <<"Cannot read properties of undefined (reading 'length')">> ])

\* Client methods the 0.2.0 server calls that bugsink-client.ts does not hold.
createProject(input) == Call("POST", <<"/projects/">>, NoQuery, JsonStringify(input))

updateProject(projectId, input) ==
  Call("PATCH", <<"/projects/", ToString(projectId), "/">>, NoQuery, JsonStringify(input))

createTeam(input) == Call("POST", <<"/teams/">>, NoQuery, JsonStringify(input))

updateTeam(teamId, input) ==
  Call("PATCH", <<"/teams/", teamId, "/">>, NoQuery, JsonStringify(input))

getEventStacktrace(eventId) == Get(<<"/events/", eventId, "/stacktrace/">>)

listReleases(projectId) ==
  GetQuery(<<"/releases/">>, << <<"project", ToString(projectId)>> >>)

getRelease(releaseId) == Get(<<"/releases/", releaseId, "/">>)

createRelease(input) == Call("POST", <<"/releases/">>, NoQuery, JsonStringify(input))

\* ------------------------------------------------------------- formatting
\* [..].filter(Boolean): the null entries dropped.  A line is never the empty
\* string here, so null (written NoLine) is the only falsy entry.
NoLine == <<"<null>">>

RECURSIVE FilterBoolean(_)
FilterBoolean(lines) ==
  IF lines = <<>> THEN <<>>
  ELSE (IF Head(lines) = NoLine THEN <<>> ELSE <<Head(lines)>>) \o FilterBoolean(Tail(lines))

RECURSIVE Reverse(_)
Reverse(q) == IF q = <<>> THEN <<>> ELSE Append(Reverse(Tail(q)), Head(q))

\* q.slice(0, n)
Slice0(q, n) == SubSeq(q, 1, IF Len(q) < n THEN Len(q) ELSE n)

RECURSIVE Flatten(_)
\* The concatenation of a sequence of sequences.
Flatten(qs) == IF qs = <<>> THEN <<>> ELSE Head(qs) \o Flatten(Tail(qs))

RECURSIVE JoinBlocks(_, _)
\* blocks.join(sep), each block and sep a sequence of lines: sep is the lines a
\* separator such as '\n\n' puts between two blocks.
JoinBlocks(blocks, sep) ==
  IF blocks = <<>> THEN <<>>
  ELSE IF Len(blocks) = 1 THEN Head(blocks)
       ELSE Head(blocks) \o sep \o JoinBlocks(Tail(blocks), sep)

\* results.map(f)
Map(f(_), q) == [ i \in 1..Len(q) |-> f(q[i]) ]

\* The two tests of getIssueStatus in the other order
getIssueStatus_MutedFirst(issue) ==
  IF issue.is_muted THEN "muted"
  ELSE IF issue.is_resolved THEN "resolved"
       ELSE "unresolved"

\* Helper to derive status from issue flags
getIssueStatus(issue) ==
  IF issue.is_resolved THEN "resolved"
  ELSE IF issue.is_muted THEN "muted"
       ELSE "unresolved"

\* o.k is present and a non-empty data string
TruthyField(o, k) == k \in DOMAIN o /\ o[k] # ""

\* o.k is present and a non-zero number
TruthyNumber(o, k) == k \in DOMAIN o /\ o[k] # 0

\* formatIssue without .filter(Boolean): the null entry stays in the list
formatIssue_NoFilter(issue) ==
  << <<"[", issue.calculated_type, "] ", issue.calculated_value>>,
     <<"  ID: ", issue.id>>,
     <<"  Status: ", getIssueStatus(issue)>>,
     <<"  Occurrences: ", ToString(issue.digested_event_count)>>,
     <<"  First seen: ", issue.first_seen>>,
     <<"  Last seen: ", issue.last_seen>>,
     IF TruthyField(issue, "transaction")
     THEN <<"  Transaction: ", issue.transaction>> ELSE NoLine >>

\* Helper to format issue for display
formatIssue(issue) ==
  FilterBoolean(<<
    <<"[", issue.calculated_type, "] ", issue.calculated_value>>,
    <<"  ID: ", issue.id>>,
    <<"  Status: ", getIssueStatus(issue)>>,
    <<"  Occurrences: ", ToString(issue.digested_event_count)>>,
    <<"  First seen: ", issue.first_seen>>,
    <<"  Last seen: ", issue.last_seen>>,
    IF TruthyField(issue, "transaction")
    THEN <<"  Transaction: ", issue.transaction>> ELSE NoLine >>)

\* Frames shown for one exception value
StacktraceLimit == 15

\* The statement written as frames.slice(0, 15).reverse()
StacktraceFrames_SliceFirst(frames) ==
  [ shown  |-> Reverse(Slice0(frames, StacktraceLimit)),
    source |-> frames ]

\* const frames = [...exc.stacktrace.frames].reverse().slice(0, 15): the frames
\* shown, and the source array as the statement leaves it.
StacktraceFrames(frames) ==
  [ shown  |-> Slice0(Reverse(frames), StacktraceLimit),
    source |-> frames ]

\* context_line.trim()
Trim(str) ==
  CASE str = "  x = 1  " -> "x = 1"
    [] str = "   "       -> ""
    [] OTHER             -> str

\* The lines of one stack frame
FrameLines(frame) ==
  LET loc == IF TruthyNumber(frame, "lineno") THEN <<":", ToString(frame.lineno)>> ELSE <<>>
      col == IF TruthyNumber(frame, "colno")  THEN <<":", ToString(frame.colno)>>  ELSE <<>>
  IN << <<"      ", frame.filename>> \o loc \o col \o <<" in ", frame.function>> >> \o
     (IF TruthyField(frame, "context_line")
      THEN << <<"        > ", Trim(frame.context_line)>> >> ELSE <<>>)

\* exc.stacktrace?.frames is there
HasFrames(exc) == "stacktrace" \in DOMAIN exc /\ "frames" \in DOMAIN exc.stacktrace

\* The lines of one exception value
ExceptionLines(exc, includeStacktrace) ==
  << <<"    ", exc.type, ": ", exc.value>> >> \o
  (IF includeStacktrace /\ HasFrames(exc)
   THEN << <<"    Stacktrace (most recent first):">> >> \o
        Flatten(Map(FrameLines, StacktraceFrames(exc.stacktrace.frames).shown))
   ELSE <<>>)

\* o.k?.j is present and a non-empty data string
TruthyNested(o, k, j) == k \in DOMAIN o /\ TruthyField(o[k], j)

\* x || d for a data string that may be absent
OrElse(o, k, d) == IF TruthyField(o, k) THEN o[k] ELSE d

\* Helper to format event for display
formatEvent(event, includeStacktrace) ==
  LET head == << <<"Event ", event.id>>,
                 <<"  Event ID: ", event.event_id>>,
                 <<"  Timestamp: ", event.timestamp>>,
                 <<"  Ingested: ", event.ingested_at>> >>
      data == event.data
      ExcLines(exc) == ExceptionLines(exc, includeStacktrace)
  IN IF "data" \notin DOMAIN event THEN head
     ELSE head \o
       (IF TruthyField(data, "level")    THEN << <<"  Level: ", data.level>> >> ELSE <<>>) \o
       (IF TruthyField(data, "platform") THEN << <<"  Platform: ", data.platform>> >> ELSE <<>>) \o
       (IF TruthyField(data, "message")  THEN << <<"  Message: ", data.message>> >> ELSE <<>>) \o
       (IF "exception" \in DOMAIN data /\ "values" \in DOMAIN data.exception
        THEN << <<"  Exception:">> >> \o Flatten(Map(ExcLines, data.exception.values))
        ELSE <<>>) \o
       (IF TruthyNested(data, "request", "url")
        THEN << <<"  Request: ", OrElse(data.request, "method", "GET"), " ", data.request.url>> >>
        ELSE <<>>) \o
       (IF TruthyNested(data, "browser", "name")
        THEN << <<"  Browser: ", data.browser.name, " ", OrElse(data.browser, "version", "")>> >>
        ELSE <<>>) \o
       (IF TruthyNested(data, "os", "name")
        THEN << <<"  OS: ", data.os.name, " ", OrElse(data.os, "version", "")>> >>
        ELSE <<>>)

\* -------------------------------------------------- what the remote holds
Project(id, name, slug) ==
  [ id |-> id, team |-> "team-1", name |-> name, slug |-> slug, dsn |-> "https://key@bugsink.example/1",
    digested_event_count |-> 5, stored_event_count |-> 5,
    alert_on_new_issue |-> TRUE, alert_on_regression |-> TRUE, alert_on_unmute |-> FALSE,
    visibility |-> "team_members", retention_max_event_count |-> 10000 ]

Projects == { Project(1, "A", "a"), Project(2, "B", "b") }

Team(id, name) == [ id |-> id, name |-> name, visibility |-> "discoverable" ]

Teams == { Team("team-1", "Core"), Team("team-2", "Web") }

IssueCore(resolved, muted) ==
  [ id |-> "issue-1", project |-> 1, digest_order |-> 1,
    first_seen |-> "2025-01-01T00:00:00Z", last_seen |-> "2025-01-02T00:00:00Z",
    digested_event_count |-> 3, stored_event_count |-> 3,
    calculated_type |-> "TypeError", calculated_value |-> "x is undefined",
    is_resolved |-> resolved, is_resolved_by_next_release |-> FALSE, is_muted |-> muted ]

\* Issues as list pages carry them
ListedIssues ==
  { With(IssueCore(r, m), "transaction", "/checkout") : r \in BOOLEAN, m \in BOOLEAN } \cup
  { IssueCore(FALSE, FALSE) }

\* Issues as the detail endpoint carries them
Issues ==
  { IssueCore(r, m) : r \in BOOLEAN, m \in BOOLEAN } \cup
  { With(IssueCore(r, m), "transaction", t) : r \in BOOLEAN, m \in BOOLEAN, t \in {"", "/checkout"} }

Release(version) ==
  [ id |-> "rel-1", project |-> 1, version |-> version, date_released |-> "2025-03-01T00:00:00Z" ]

Releases ==
  { Release(""), Release("1.0.0"),
    With(With(Release("1.0.0"), "semver", "1.0.0"), "is_semver", TRUE) }

\* Stack frames: one with every optional part, one with a zero line number and an
\* empty context line, one bare.
FrameA == [ filename |-> "a.py", function |-> "fa", lineno |-> 10, colno |-> 2,
            context_line |-> "  x = 1  " ]
FrameB == [ filename |-> "b.py", function |-> "fb", lineno |-> 0, context_line |-> "" ]
FrameC == [ filename |-> "c.py", function |-> "fc" ]

\* Frames of a deep stack: the i-th frame is at line i.
DeepFrame(i) == [ filename |-> "deep.py", function |-> "rec", lineno |-> i ]

\* Longest stacktrace the remote sends; more than the formatter shows.
MaxFrames == 17
\* Frames of the stacktraces whose every arrangement is sent.
MaxMixedFrames == 3

RECURSIVE SeqsUpTo(_, _)
\* The sequences over S of length at most n
SeqsUpTo(S, n) ==
  IF n = 0 THEN { <<>> }
  ELSE LET shorter == SeqsUpTo(S, n - 1)
       IN  shorter \cup { Append(q, x) : q \in { r \in shorter : Len(r) = n - 1 }, x \in S }

FrameLists ==
  SeqsUpTo({FrameA, FrameB, FrameC}, MaxMixedFrames) \cup
  { [ i \in 1..n |-> DeepFrame(i) ] : n \in 1..MaxFrames }

EventCore ==
  [ id |-> "ev-1", event_id |-> "0123abcd", issue |-> "issue-1", project |-> 1,
    timestamp |-> "2025-01-02T00:00:00Z", ingested_at |-> "2025-01-02T00:00:01Z",
    digested_at |-> "2025-01-02T00:00:02Z", digest_order |-> 1, grouping |-> 1 ]

ExceptionOf(frames) ==
  [ values |-> << [ type |-> "TypeError", value |-> "x is undefined",
                    stacktrace |-> [ frames |-> frames ] ] >> ]

\* An event with everything the formatter looks at.
EventFull ==
  With(EventCore, "data",
    [ level |-> "error", platform |-> "python", message |-> "boom",
      exception |-> ExceptionOf(<<FrameA, FrameB, FrameC>>),
      tags |-> << <<"env", "prod">> >>,
      contexts |-> << <<"runtime", "CPython">> >>,
      request |-> [ url |-> "https://shop.example/checkout", method |-> "POST" ],
      browser |-> [ name |-> "Firefox", version |-> "130" ],
      os |-> [ name |-> "Linux" ] ])

\* An event with partial data: an exception value without stacktrace, empty tags.
EventPartial ==
  With(EventCore, "data",
    [ level |-> "", exception |-> [ values |-> << [ type |-> "KeyError", value |-> "k" ] >> ],
      tags |-> <<>>, request |-> [ url |-> "https://shop.example/" ], browser |-> [ version |-> "1" ] ])

\* Events with parts missing: an exception value whose stacktrace has no frames, an
\* exception without values, data without an exception.
EventNoFrames ==
  With(EventCore, "data",
    [ exception |-> [ values |-> << [ type |-> "TypeError", value |-> "x is undefined",
                                      stacktrace |-> [ k \in {} |-> <<>> ] ] >> ] ])

EventNoValues == With(EventCore, "data", [ exception |-> [ k \in {} |-> <<>> ] ])

EventLevelOnly == With(EventCore, "data", [ level |-> "warning" ])

\* Events as list pages carry them
ListedEvents == { EventCore, EventFull, EventPartial, EventNoValues }

\* Events as the detail endpoint carries them
DetailEvents ==
  ListedEvents \cup { EventNoFrames, EventLevelOnly } \cup
  { With(EventCore, "data", [ exception |-> ExceptionOf(fs) ]) : fs \in FrameLists }

\* A page descriptor {next, previous, results}
Page(results) == [ next |-> "", previous |-> "", results |-> results ]

Pages(S) == { Page(q) : q \in SeqsUpTo(S, MaxResults) }

\* A 2xx JSON body that is no page: the results key is missing.
NotAPage == [ detail |-> "ok" ]

\* ------------------------------------------------------------ tool handlers
\* Each handler awaits one client method and then renders what it returned:
\* <tool>_call(a) is the client call made with the parsed arguments a,
\* <tool>_render(a, v) the text built from the value v the call returned.  A
\* handler that reads response.results of a body without results throws.
BoolStr(b) == IF b THEN "true" ELSE "false"

NoResults == Threw("type", <<"Cannot read properties of undefined (reading 'length')">>)

HasResults(v) == "results" \in DOMAIN v

\* `Found N <what>(s):\n\n${text}`
Found(n, what, text) == << <<"Found ", ToString(n), " ", what, "(s):">>, EmptyStr >> \o text

list_projects_call(a) == listProjects

\* The project entry without its Events line
ProjectSummary_OneLine(p) ==
  << <<"- ", p.name, " (ID: ", ToString(p.id), ", slug: ", p.slug, ")">> >>

ProjectSummary(p) ==
  << <<"- ", p.name, " (ID: ", ToString(p.id), ", slug: ", p.slug, ")">>,
     <<"  Events: ", ToString(p.stored_event_count), " stored, ",
       ToString(p.digested_event_count), " digested">> >>

list_projects_render(a, response) ==
  IF ~HasResults(response) THEN NoResults
  ELSE IF Len(response.results) = 0 THEN Returned(<< <<"No projects found.">> >>)
       ELSE Returned(Found(Len(response.results), "project",
                           JoinBlocks(Map(ProjectSummary, response.results), <<>>)))

list_teams_call(a) == listTeams

TeamSummary(t) == << <<"- ", t.name, " (ID: ", t.id, ", visibility: ", t.visibility, ")">> >>

\* list_teams rendering the results last to first
list_teams_render_Reversed(a, response) ==
  IF ~HasResults(response) THEN NoResults
  ELSE IF Len(response.results) = 0 THEN Returned(<< <<"No teams found.">> >>)
       ELSE Returned(Found(Len(response.results), "team",
                           JoinBlocks(Map(TeamSummary, Reverse(response.results)), <<>>)))

list_teams_render(a, response) ==
  IF ~HasResults(response) THEN NoResults
  ELSE IF Len(response.results) = 0 THEN Returned(<< <<"No teams found.">> >>)
       ELSE Returned(Found(Len(response.results), "team",
                           JoinBlocks(Map(TeamSummary, response.results), <<>>)))

list_issues_call(a) ==
  listIssues(a.project_id.n,
             [ status |-> Arg(a, "status"), limit |-> Arg(a, "limit"),
               sort |-> Arg(a, "sort"), order |-> Arg(a, "order") ])

\* list_issues without its test for an empty page
list_issues_render_NoEmptyCase(a, response) ==
  IF ~HasResults(response) THEN NoResults
  ELSE Returned(Found(Len(response.results), "issue",
                      JoinBlocks(Map(formatIssue, response.results), <<EmptyStr>>)))

list_issues_render(a, response) ==
  IF ~HasResults(response) THEN NoResults
  ELSE IF Len(response.results) = 0
       THEN Returned(<< <<"No issues found for project ", ToString(a.project_id.n), ".">> >>)
       ELSE Returned(Found(Len(response.results), "issue",
                           JoinBlocks(Map(formatIssue, response.results), <<EmptyStr>>)))

get_issue_call(a) == getIssue(a.issue_id.s)

get_issue_render(a, issue) == Returned(formatIssue(issue))

list_events_call(a) == listEvents(a.issue_id.s, [ limit |-> Arg(a, "limit") ])

\* list_events formatting its events as get_event does
list_events_render_WithStacktrace(a, response) ==
  LET Block(e) == formatEvent(e, TRUE)
  IN IF ~HasResults(response) THEN NoResults
     ELSE IF Len(response.results) = 0
          THEN Returned(<< <<"No events found for issue ", a.issue_id.s, ".">> >>)
          ELSE Returned(Found(Len(response.results), "event",
                              JoinBlocks(Map(Block, response.results),
                                         <<EmptyStr, <<"---">>, EmptyStr>>)))

list_events_render(a, response) ==
  LET Block(e) == formatEvent(e, FALSE)
  IN IF ~HasResults(response) THEN NoResults
     ELSE IF Len(response.results) = 0
          THEN Returned(<< <<"No events found for issue ", a.issue_id.s, ".">> >>)
          ELSE Returned(Found(Len(response.results), "event",
                              JoinBlocks(Map(Block, response.results),
                                         <<EmptyStr, <<"---">>, EmptyStr>>)))

get_event_call(a) == getEvent(a.event_id.s)

\* Object.keys(event.data?.k).length > 0, the object held as its <<key, value>> entries
NonEmptyObject(event, k) ==
  "data" \in DOMAIN event /\ k \in DOMAIN event.data /\ Len(event.data[k]) > 0

\* JSON.stringify(obj, null, 2) of an object of strings
JsonPretty(entries) ==
  << <<"{">> >> \o
  [ i \in 1..Len(entries) |->
      <<"  \"", entries[i][1], "\": \"", entries[i][2], "\"">> \o
      (IF i < Len(entries) THEN <<",">> ELSE <<>>) ] \o
  << <<"}">> >>

\* get_event reading event.data.tags without the ?.
get_event_render_NoOptionalChaining(a, event) ==
  IF "data" \notin DOMAIN event
  THEN Threw("type", <<"Cannot read properties of undefined (reading 'tags')">>)
  ELSE Returned(
         formatEvent(event, TRUE) \o
         (IF NonEmptyObject(event, "tags")
          THEN <<EmptyStr, <<"Tags:">> >> \o JsonPretty(event.data.tags) ELSE <<>>) \o
         (IF NonEmptyObject(event, "contexts")
          THEN <<EmptyStr, <<"Contexts:">> >> \o JsonPretty(event.data.contexts) ELSE <<>>))

get_event_render(a, event) ==
  Returned(
    formatEvent(event, TRUE) \o
    (IF NonEmptyObject(event, "tags")
     THEN <<EmptyStr, <<"Tags:">> >> \o JsonPretty(event.data.tags) ELSE <<>>) \o
    (IF NonEmptyObject(event, "contexts")
     THEN <<EmptyStr, <<"Contexts:">> >> \o JsonPretty(event.data.contexts) ELSE <<>>))

\* The event object as get_event's formatting leaves it: formatEvent's statement
\* on each exception value's frames is the only one that touches it.
EventAfterFormat(event) ==
  IF "data" \in DOMAIN event /\ "exception" \in DOMAIN event.data
     /\ "values" \in DOMAIN event.data.exception
  THEN [ event EXCEPT !.data.exception.values =
           [ i \in 1..Len(@) |->
               IF HasFrames(@[i])
               THEN [ @[i] EXCEPT !.stacktrace.frames = StacktraceFrames(@).source ]
               ELSE @[i] ] ]
  ELSE event

test_connection_call(a) == listProjects

\* test_connection's text, from what client.testConnection returned
test_connection_render(result) ==
  Returned(<< (IF result.success THEN <<"Connection successful: ">>
                                 ELSE <<"Connection failed: ">>) \o result.message >>)

get_project_call(a) == getProject(a.project_id.n)

get_project_render(a, project) ==
  Returned(<<
    <<"Project: ", project.name>>,
    <<"  ID: ", ToString(project.id)>>,
    <<"  Slug: ", project.slug>>,
    <<"  Team: ", project.team>>,
    <<"  DSN: ", project.dsn>>,
    <<"  Visibility: ", project.visibility>>,
    <<"  Events: ", ToString(project.stored_event_count), " stored, ",
      ToString(project.digested_event_count), " digested">>,
    <<"  Retention: ", ToString(project.retention_max_event_count), " max events">>,
    <<"  Alerts:">>,
    <<"    New issue: ", BoolStr(project.alert_on_new_issue)>>,
    <<"    Regression: ", BoolStr(project.alert_on_regression)>>,
    <<"    Unmute: ", BoolStr(project.alert_on_unmute)>> >>)

\* The filter written as ([_, v]) => v: falsy values go too
DefinedEntries_Truthy(obj) == [ k \in { j \in DOMAIN obj : Truthy(obj[j]) } |-> obj[k] ]

\* Object.fromEntries(Object.entries(obj).filter(([_, v]) => v !== undefined))
DefinedEntries(obj) == [ k \in { j \in DOMAIN obj : obj[j] # Undefined } |-> obj[k] ]

\* ({ k, ...rest }) => rest
Rest(obj, k) == [ j \in DOMAIN obj \ {k} |-> obj[j] ]

create_project_call(a) ==
  createProject([ team                |-> a.team_id,
                  name                |-> a.name,
                  visibility          |-> Arg(a, "visibility"),
                  alert_on_new_issue  |-> Arg(a, "alert_on_new_issue"),
                  alert_on_regression |-> Arg(a, "alert_on_regression"),
                  alert_on_unmute     |-> Arg(a, "alert_on_unmute") ])

create_project_render(a, project) ==
  Returned(<< <<"Project created successfully:">>,
              <<"  Name: ", project.name>>,
              <<"  ID: ", ToString(project.id)>>,
              <<"  DSN: ", project.dsn>> >>)

\* update_project's input: the filtered rest of the parsed arguments
update_project_input(a) == DefinedEntries(Rest(a, "project_id"))

update_project_call(a) == updateProject(a.project_id.n, update_project_input(a))

update_project_render(a, project) ==
  Returned(<< <<"Project updated successfully:">>,
              <<"  Name: ", project.name>>,
              <<"  ID: ", ToString(project.id)>>,
              <<"  Visibility: ", project.visibility>> >>)

create_team_call(a) ==
  createTeam([ name |-> a.name, visibility |-> Arg(a, "visibility") ])

create_team_render(a, team) ==
  Returned(<< <<"Team created successfully:">>,
              <<"  Name: ", team.name>>,
              <<"  ID: ", team.id>>,
              <<"  Visibility: ", team.visibility>> >>)

\* update_team's input: the filtered { name, visibility }
update_team_input(a) ==
  DefinedEntries([ name |-> Arg(a, "name"), visibility |-> Arg(a, "visibility") ])

update_team_call(a) == updateTeam(a.team_id.s, update_team_input(a))

update_team_render(a, team) ==
  Returned(<< <<"Team updated successfully:">>,
              <<"  Name: ", team.name>>,
              <<"  ID: ", team.id>>,
              <<"  Visibility: ", team.visibility>> >>)

get_stacktrace_call(a) == getEventStacktrace(a.event_id.s)

\* The pre-rendered text, as the client returned it
get_stacktrace_render(a, markdown) == Returned(<< <<markdown>> >>)

list_releases_call(a) == listReleases(a.project_id.n)

ReleaseSummary(r) ==
  << <<"- ", IF r.version # "" THEN r.version ELSE "(empty)", " (ID: ", r.id, ")">>,
     <<"  Released: ", r.date_released>> >>

list_releases_render(a, response) ==
  IF ~HasResults(response) THEN NoResults
  ELSE IF Len(response.results) = 0
       THEN Returned(<< <<"No releases found for project ", ToString(a.project_id.n), ".">> >>)
       ELSE Returned(Found(Len(response.results), "release",
                           JoinBlocks(Map(ReleaseSummary, response.results), <<>>)))

get_release_call(a) == getRelease(a.release_id.s)

get_release_render(a, release) ==
  Returned(FilterBoolean(<<
    <<"Release: ", IF release.version # "" THEN release.version ELSE "(empty)">>,
    <<"  ID: ", release.id>>,
    <<"  Project: ", ToString(release.project)>>,
    <<"  Released: ", release.date_released>>,
    IF TruthyField(release, "semver") THEN <<"  Semver: ", release.semver>> ELSE NoLine,
    IF "is_semver" \in DOMAIN release
    THEN <<"  Is Semver: ", BoolStr(release.is_semver)>> ELSE NoLine >>))

create_release_call(a) ==
  createRelease([ project   |-> a.project_id,
                  version   |-> a.version,
                  timestamp |-> Arg(a, "timestamp") ])

create_release_render(a, release) ==
  Returned(<< <<"Release created successfully:">>,
              <<"  Version: ", release.version>>,
              <<"  ID: ", release.id>>,
              <<"  Released: ", release.date_released>> >>)

\* ------------------------------------------------------------- dispatch
\* The client call a tool's handler makes
CallOf(tool, a) ==
  CASE tool = "list_projects"   -> list_projects_call(a)
    [] tool = "list_teams"      -> list_teams_call(a)
    [] tool = "list_issues"     -> list_issues_call(a)
    [] tool = "get_issue"       -> get_issue_call(a)
    [] tool = "list_events"     -> list_events_call(a)
    [] tool = "get_event"       -> get_event_call(a)
    [] tool = "test_connection" -> test_connection_call(a)
    [] tool = "get_project"     -> get_project_call(a)
    [] tool = "create_project"  -> create_project_call(a)
    [] tool = "update_project"  -> update_project_call(a)
    [] tool = "create_team"     -> create_team_call(a)
    [] tool = "update_team"     -> update_team_call(a)
    [] tool = "get_stacktrace"  -> get_stacktrace_call(a)
    [] tool = "list_releases"   -> list_releases_call(a)
    [] tool = "get_release"     -> get_release_call(a)
    [] tool = "create_release"  -> create_release_call(a)

\* The rest of a tool's handler, from the value its client call returned
RenderOf(tool, a, v) ==
  CASE tool = "list_projects"   -> list_projects_render(a, v)
    [] tool = "list_teams"      -> list_teams_render(a, v)
    [] tool = "list_issues"     -> list_issues_render(a, v)
    [] tool = "get_issue"       -> get_issue_render(a, v)
    [] tool = "list_events"     -> list_events_render(a, v)
    [] tool = "get_event"       -> get_event_render(a, v)
    [] tool = "get_project"     -> get_project_render(a, v)
    [] tool = "create_project"  -> create_project_render(a, v)
    [] tool = "update_project"  -> update_project_render(a, v)
    [] tool = "create_team"     -> create_team_render(a, v)
    [] tool = "update_team"     -> update_team_render(a, v)
    [] tool = "get_stacktrace"  -> get_stacktrace_render(a, v)
    [] tool = "list_releases"   -> list_releases_render(a, v)
    [] tool = "get_release"     -> get_release_render(a, v)
    [] tool = "create_release"  -> create_release_render(a, v)

\* The stacktrace endpoint answers with text: the body is returned as it is.
FetchTextResult(resp) ==
  IF resp.net THEN Threw("network", <<"fetch failed">>)
  ELSE IF ~ResponseOk(resp.status)
       THEN Threw("api", ApiErrorMessage(resp.status, resp.text))
       ELSE Returned(resp.text)

\* What the awaited client method of a tool ends with, given the remote's answer
ClientOutcome(tool, resp) ==
  IF tool = "get_stacktrace" THEN FetchTextResult(resp) ELSE FetchResult(resp)

\* What the client method a tool awaits ends with: test_connection awaits
\* testConnection, which wraps listProjects; every other tool awaits a method that
\* returns what fetch returns.
MethodOutcome(tool, resp) ==
  IF tool = "test_connection" THEN testConnection(ClientOutcome(tool, resp))
  ELSE ClientOutcome(tool, resp)

\* A handler from its await on: an exception of the client method propagates,
\* a value is rendered.
HandlerOutcome(tool, a, resp) ==
  LET ret == MethodOutcome(tool, resp)
  IN IF ret.threw THEN ret
     ELSE IF tool = "test_connection" THEN test_connection_render(ret.value)
          ELSE RenderOf(tool, a, ret.value)

\* The tool result the server sends for what the handler ended with
ToolResult(outcome) ==
  IF outcome.threw
  THEN [ isError |-> TRUE,  kind |-> "tool_error", text |-> << outcome.message >> ]
  ELSE [ isError |-> FALSE, kind |-> "ok",         text |-> outcome.value ]

\* The result of an invocation whose arguments do not parse
ValidationError(tool) ==
  [ isError |-> TRUE, kind |-> "validation_error",
    text |-> << <<"Invalid arguments for tool ", tool>> >> ]

\* ---------------------------------------------------- what the host sends
\* Argument values the host supplies, by tool and key: well-typed ones, falsy
\* ones, and ones the schema refuses.
ArgSamples(tool) ==
  CASE tool = "list_issues" ->
         [ project_id |-> { NumV(1), StrV("1") },
           status     |-> { StrV("unresolved"), StrV("") },
           limit      |-> { NumV(5), NumV(0) },
           sort       |-> { StrV("last_seen"), StrV("newest") },
           order      |-> { StrV("asc") } ]
    [] tool = "get_issue"      -> [ issue_id |-> { StrV("issue-1"), NumV(1) } ]
    [] tool = "list_events" ->
         [ issue_id |-> { StrV("issue-1") },
           limit    |-> { NumV(3), NumV(0), StrV("3") } ]
    [] tool = "get_event"      -> [ event_id |-> { StrV("ev-1"), NullV } ]
    [] tool = "get_project"    -> [ project_id |-> { NumV(1), StrV("1") } ]
    [] tool = "create_project" ->
         [ team_id             |-> { StrV("team-1") },
           name                |-> { StrV("New") },
           visibility          |-> { StrV("joinable"), StrV("public") },
           alert_on_new_issue  |-> { BoolV(FALSE), StrV("no") },
           alert_on_regression |-> { BoolV(FALSE) },
           alert_on_unmute     |-> { BoolV(TRUE) } ]
    [] tool = "update_project" ->
         [ project_id                |-> { NumV(1), StrV("1") },
           name                      |-> { StrV("Renamed") },
           visibility                |-> { StrV("joinable"), StrV("public") },
           alert_on_new_issue        |-> { BoolV(FALSE) },
           alert_on_regression       |-> { BoolV(TRUE) },
           alert_on_unmute           |-> { BoolV(FALSE), NullV },
           retention_max_event_count |-> { NumV(0) } ]
    [] tool = "create_team" ->
         [ name       |-> { StrV("Ops"), BoolV(TRUE) },
           visibility |-> { StrV("hidden"), StrV("team_members") } ]
    [] tool = "update_team" ->
         [ team_id    |-> { StrV("team-1") },
           name       |-> { StrV(""), StrV("Ops") },
           visibility |-> { StrV("hidden"), StrV("team_members"), NullV } ]
    [] tool = "get_stacktrace" -> [ event_id |-> { StrV("ev-1"), NumV(1) } ]
    [] tool = "list_releases"  -> [ project_id |-> { NumV(1), BoolV(TRUE) } ]
    [] tool = "get_release"    -> [ release_id |-> { StrV("rel-1"), NumV(1) } ]
    [] tool = "create_release" ->
         [ project_id |-> { NumV(1) },
           version    |-> { StrV("1.0.0"), NumV(1) },
           timestamp  |-> { StrV("2025-03-01T00:00:00Z") } ]
    [] OTHER -> [ k \in {} |-> {} ]

RECURSIVE ObjectsOver(_, _)
\* The objects with any subset of the keys K, each key with one of its samples
ObjectsOver(samples, K) ==
  IF K = {} THEN { [ k \in {} |-> Undefined ] }
  ELSE LET k    == CHOOSE x \in K : TRUE
           rest == ObjectsOver(samples, K \ {k})
       IN  rest \cup { With(f, k, v) : f \in rest, v \in samples[k] }

\* The argument objects the host sends to a tool: any subset of the keys, each
\* with one of its sample values.
Arguments(tool) == ObjectsOver(ArgSamples(tool), DOMAIN ArgSamples(tool))

\* ------------------------------------------------- what the remote answers
ErrorTexts == { "Not found", "" }

JsonBodies(tool) ==
  CASE tool \in {"list_projects", "test_connection"} -> Pages(Projects) \cup {NotAPage}
    [] tool = "list_teams"     -> Pages(Teams) \cup {NotAPage}
    [] tool = "list_issues"    -> Pages(ListedIssues) \cup {NotAPage}
    [] tool = "list_events"    -> Pages(ListedEvents) \cup {NotAPage}
    [] tool = "list_releases"  -> Pages(Releases) \cup {NotAPage}
    [] tool = "get_issue"      -> Issues
    [] tool = "get_event"      -> DetailEvents
    [] tool \in {"get_project", "create_project", "update_project"} -> Projects
    [] tool \in {"create_team", "update_team"} -> Teams
    [] tool \in {"get_release", "create_release"} -> Releases
    [] OTHER -> {}

\* The answers to a tool's request: every JSON body with 200, one with each other
\* 2xx status, a body that is not JSON, an error body with each non-2xx status,
\* and no answer at all.
Answers(tool) ==
  LET bodies == JsonBodies(tool)
      other  == IF bodies = {} THEN {} ELSE SuccessCodes \ {200}
  IN { JsonAnswer(200, j) : j \in bodies } \cup
     { JsonAnswer(st, CHOOSE j \in bodies : TRUE) : st \in other } \cup
     { TextAnswer(st, "# Stacktrace") : st \in SuccessCodes } \cup
     { TextAnswer(st, t) : st \in FailureCodes, t \in ErrorTexts } \cup
     { NetworkFailure }

\* ------------------------------------------------------------ the process
\* process.env.K, undefined when unset
EnvGet(e, k) == IF k \in DOMAIN e THEN e[k] ELSE <<"undefined">>

NoClient == [ k \in {} |-> EmptyStr ]

Idle ==
  [ pc |-> "idle", tool |-> "", args |-> <<>>, parsed |-> <<>>, reqs |-> <<>>, seq |-> 0,
    resp |-> <<>>, ret |-> <<>>, held |-> <<>>, result |-> <<>> ]

Slots == DOMAIN inv

\* Invocations sent by the host: answered, and open.
Sent == Len(served) + Cardinality({ i \in Slots : inv[i].pc # "idle" })

Init ==
  /\ env \in Environments
  /\ phase = "boot"
  /\ exitCode = 0
  /\ client = NoClient
  /\ registered = {}
  /\ stderr = <<>>
  /\ inv = [ i \in {1} |-> Idle ]
  /\ served = <<>>
  /\ wire = 0

\* if (!BUGSINK_URL || !BUGSINK_TOKEN) { console.error(...); process.exit(1); }
ConfigError ==
  /\ phase = "boot"
  /\ ConfigMissing(env)
  /\ stderr' = stderr \o UsageLines
  /\ exitCode' = 1
  /\ phase' = "exited"
  /\ UNCHANGED <<env, client, registered, inv, served, wire>>

\* const client = new BugsinkClient({ baseUrl: BUGSINK_URL, apiToken: BUGSINK_TOKEN })
CreateClient ==
  /\ phase = "boot"
  /\ ~ConfigMissing(env)
  /\ client' = NewBugsinkClient([ baseUrl  |-> EnvGet(env, "BUGSINK_URL"),
                                  apiToken |-> EnvGet(env, "BUGSINK_TOKEN") ])
  /\ phase' = "client"
  /\ UNCHANGED <<env, exitCode, registered, stderr, inv, served, wire>>

\* const server = new McpServer(...) and every server.tool(...) registration
RegisterTools ==
  /\ phase = "client"
  /\ registered' = ToolNames
  /\ phase' = "registered"
  /\ UNCHANGED <<env, exitCode, client, stderr, inv, served, wire>>

\* main(): server.connect resolves, the two lines go to stderr
MainConnected ==
  /\ phase = "registered"
  /\ stderr' = stderr \o << <<"Bugsink MCP server started">>,
                            <<"Connected to: ">> \o EnvGet(env, "BUGSINK_URL") >>
  /\ phase' = "serving"
  /\ UNCHANGED <<env, exitCode, client, registered, inv, served, wire>>

\* main().catch: server.connect rejects
MainFailed ==
  /\ phase = "registered"
  /\ stderr' = stderr \o << <<"Fatal error:", "connect failed">> >>
  /\ exitCode' = 1
  /\ phase' = "exited"
  /\ UNCHANGED <<env, client, registered, inv, served, wire>>

\* fetch putting its request on the wire twice
FetchRequests_Twice(c, call) == << FetchRequest(c, call), FetchRequest(c, call) >>

\* BugsinkClient.fetch up to its await: the requests it puts on the wire
FetchRequests(c, call) == << FetchRequest(c, call) >>

\* The transport is connected and the host may send one more tools/call in slot i.
Accepting(i) ==
  /\ phase = "serving"
  /\ inv[i].pc = "idle"
  /\ Sent < MaxServed

\* The server receives a tools/call for a registered tool with the arguments args:
\* they are parsed against the tool's schema; if they parse, the handler runs to
\* its await.
Invoke(i, tool, args) ==
  /\ Accepting(i)
  /\ tool \in registered
  /\ IF ~ValidArgs(Schema(tool), args)
     THEN /\ inv' = [ inv EXCEPT ![i] =
                        [ Idle EXCEPT !.pc = "done", !.tool = tool, !.args = args,
                                      !.result = ValidationError(tool) ] ]
          /\ wire' = wire
     ELSE LET a    == ParsedArgs(Schema(tool), args)
              reqs == FetchRequests(client, CallOf(tool, a))
          IN /\ inv' = [ inv EXCEPT ![i] =
                           [ Idle EXCEPT !.pc = "awaiting", !.tool = tool, !.args = args,
                                         !.parsed = a, !.reqs = reqs, !.seq = wire + 1 ] ]
             /\ wire' = wire + Len(reqs)
  /\ UNCHANGED <<env, phase, exitCode, client, registered, stderr, served>>

\* A tools/call for a tool, with any arguments the host may send
ToolCall(i, tool) ==
  /\ Accepting(i)
  /\ \E args \in Arguments(tool) : Invoke(i, tool, args)

list_projects(i)   == ToolCall(i, "list_projects")
list_teams(i)      == ToolCall(i, "list_teams")
list_issues(i)     == ToolCall(i, "list_issues")
get_issue(i)       == ToolCall(i, "get_issue")
list_events(i)     == ToolCall(i, "list_events")
get_event(i)       == ToolCall(i, "get_event")
test_connection(i) == ToolCall(i, "test_connection")
get_project(i)     == ToolCall(i, "get_project")
create_project(i)  == ToolCall(i, "create_project")
update_project(i)  == ToolCall(i, "update_project")
create_team(i)     == ToolCall(i, "create_team")
update_team(i)     == ToolCall(i, "update_team")
get_stacktrace(i)  == ToolCall(i, "get_stacktrace")
list_releases(i)   == ToolCall(i, "list_releases")
get_release(i)     == ToolCall(i, "get_release")
create_release(i)  == ToolCall(i, "create_release")

\* The object the handler holds once it has run: get_event's formatting is the
\* only code that runs a statement on the frames of the event it was given.
HeldAfter(tool, resp) ==
  IF tool = "get_event" /\ ~MethodOutcome(tool, resp).threw
  THEN EventAfterFormat(resp.json)
  ELSE resp.json

\* The step with a handler's exception left uncaught: the process ends.
HttpResponse_Crash(i) ==
  /\ inv[i].pc = "awaiting"
  /\ \E resp \in Answers(inv[i].tool) :
       LET ret == MethodOutcome(inv[i].tool, resp)
       IN /\ inv' = [ inv EXCEPT ![i] =
                        [ @ EXCEPT !.pc = "done", !.resp = resp, !.ret = ret,
                                   !.held = HeldAfter(inv[i].tool, resp),
                                   !.result = ToolResult(HandlerOutcome(inv[i].tool,
                                                                        inv[i].parsed, resp)) ] ]
          /\ phase' = IF ret.threw THEN "exited" ELSE phase
          /\ exitCode' = IF ret.threw THEN 1 ELSE exitCode
  /\ UNCHANGED <<env, client, registered, stderr, served, wire>>

\* The answers the handlers have been given that are still held
HeldAnswers(tool) ==
  { inv[j].resp : j \in { k \in Slots : inv[k].pc = "done" /\ inv[k].tool = tool
                                         /\ inv[k].reqs # <<>> } }

\* The step with the last answer to a tool kept in a variable of the module and
\* handed to the next handler of that tool
Respond_Cached(i, resp) ==
  /\ inv[i].pc = "awaiting"
  /\ LET cached == IF HeldAnswers(inv[i].tool) = {} THEN resp
                   ELSE CHOOSE r \in HeldAnswers(inv[i].tool) : TRUE
     IN inv' = [ inv EXCEPT ![i] =
                   [ @ EXCEPT !.pc = "done", !.resp = resp,
                              !.ret = MethodOutcome(inv[i].tool, cached),
                              !.held = HeldAfter(inv[i].tool, cached),
                              !.result = ToolResult(HandlerOutcome(inv[i].tool,
                                                                   inv[i].parsed, cached)) ] ]
  /\ UNCHANGED <<env, phase, exitCode, client, registered, stderr, served, wire>>

\* The remote answers resp (or the request fails): fetch and the handler run to
\* the end and the server wraps what the handler ended with.
Respond(i, resp) ==
  /\ inv[i].pc = "awaiting"
  /\ inv' = [ inv EXCEPT ![i] =
                [ @ EXCEPT !.pc = "done", !.resp = resp,
                           !.ret = MethodOutcome(inv[i].tool, resp),
                           !.held = HeldAfter(inv[i].tool, resp),
                           !.result = ToolResult(HandlerOutcome(inv[i].tool,
                                                                inv[i].parsed, resp)) ] ]
  /\ UNCHANGED <<env, phase, exitCode, client, registered, stderr, served, wire>>

\* The answer to an open request arrives, any answer the remote may give
HttpResponse(i) ==
  /\ inv[i].pc = "awaiting"
  /\ \E resp \in Answers(inv[i].tool) : Respond(i, resp)

\* The result goes back to the host.
Deliver(i) ==
  /\ inv[i].pc = "done"
  /\ served' = Append(served, inv[i].result.kind)
  /\ inv' = [ inv EXCEPT ![i] = Idle ]
  /\ UNCHANGED <<env, phase, exitCode, client, registered, stderr, wire>>

Next ==
  \/ ConfigError
  \/ CreateClient
  \/ RegisterTools
  \/ MainConnected
  \/ MainFailed
  \/ \E i \in Slots : list_projects(i)
  \/ \E i \in Slots : list_teams(i)
  \/ \E i \in Slots : list_issues(i)
  \/ \E i \in Slots : get_issue(i)
  \/ \E i \in Slots : list_events(i)
  \/ \E i \in Slots : get_event(i)
  \/ \E i \in Slots : test_connection(i)
  \/ \E i \in Slots : get_project(i)
  \/ \E i \in Slots : create_project(i)
  \/ \E i \in Slots : update_project(i)
  \/ \E i \in Slots : create_team(i)
  \/ \E i \in Slots : update_team(i)
  \/ \E i \in Slots : get_stacktrace(i)
  \/ \E i \in Slots : list_releases(i)
  \/ \E i \in Slots : get_release(i)
  \/ \E i \in Slots : create_release(i)
  \/ \E i \in Slots : HttpResponse(i)
  \/ \E i \in Slots : Deliver(i)

Spec == Init /\ [][Next]_vars

\* ------------------------------------------------- the host pipelining
\* The host sends a tools/call without waiting for the answer to the one before:
\* several handlers are at their await at once and the answers to their requests
\* arrive in any order.  The tools, arguments and answers are a part of those
\* above.
PipelinedTools == {"list_projects", "get_issue", "list_events", "update_team"}

PipelinedArguments(tool) ==
  CASE tool = "get_issue"   -> { [ issue_id |-> StrV("issue-1") ], [ issue_id |-> NumV(1) ] }
    [] tool = "list_events" -> { [ issue_id |-> StrV("issue-1"), limit |-> NumV(3) ] }
    [] tool = "update_team" -> { [ team_id |-> StrV("team-1"), name |-> StrV("Ops") ] }
    [] OTHER                -> { [ k \in {} |-> Undefined ] }

PipelinedBodies(tool) ==
  CASE tool = "list_projects" -> { Page(<< Project(1, "A", "a"), Project(2, "B", "b") >>) }
    [] tool = "get_issue"   -> { IssueCore(FALSE, TRUE), IssueCore(TRUE, FALSE) }
    [] tool = "list_events" -> { Page(<< EventFull, EventPartial >>) }
    [] tool = "update_team" -> { Team("team-1", "Ops") }

PipelinedAnswers(tool) ==
  { JsonAnswer(200, j) : j \in PipelinedBodies(tool) } \cup
  { TextAnswer(404, "Not found"), NetworkFailure }

InitPipelined ==
  /\ env \in Environments
  /\ phase = "boot"
  /\ exitCode = 0
  /\ client = NoClient
  /\ registered = {}
  /\ stderr = <<>>
  /\ inv = [ i \in 1..MaxInFlight |-> Idle ]
  /\ served = <<>>
  /\ wire = 0

\* A tools/call arrives while others are open.
PipelinedCall(i) ==
  /\ Accepting(i)
  /\ \E tool \in PipelinedTools : \E args \in PipelinedArguments(tool) : Invoke(i, tool, args)

\* The answer to one of the open requests arrives.
PipelinedResponse(i) ==
  /\ inv[i].pc = "awaiting"
  /\ \E resp \in PipelinedAnswers(inv[i].tool) : Respond(i, resp)

NextPipelined ==
  \/ ConfigError
  \/ CreateClient
  \/ RegisterTools
  \/ MainConnected
  \/ MainFailed
  \/ \E i \in Slots : PipelinedCall(i)
  \/ \E i \in Slots : PipelinedResponse(i)
  \/ \E i \in Slots : Deliver(i)

SpecPipelined == InitPipelined /\ [][NextPipelined]_vars

\* ================================================================ claims
\* The fragments of a string
Frags(str) == { str[k] : k \in 1..Len(str) }

\* The invocations whose handler has got an HTTP answer
Answered == { i \in Slots : inv[i].pc = "done" /\ inv[i].reqs # <<>> /\ ~inv[i].resp.net }

\* The client method ended with the API error naming the answer's status and body.
FailedWithApiError(i) ==
  /\ inv[i].ret.threw
  /\ inv[i].ret.kind = "api"
  /\ ToString(inv[i].resp.status) \in Frags(inv[i].ret.message)
  /\ inv[i].resp.text \in Frags(inv[i].ret.message)

IsApiError(outcome) == outcome.threw /\ outcome.kind = "api"

Non2xx(status) == status < 200 \/ status > 299

\* C1 as stated: for every client method, a non-2xx answer makes the call fail
\* with the one error whose message holds the status code and the body text, and
\* a 2xx answer never produces that error.
C1_EveryMethodFails ==
  \A i \in Answered :
    /\ Non2xx(inv[i].resp.status) => FailedWithApiError(i)
    /\ ~Non2xx(inv[i].resp.status) => ~IsApiError(inv[i].ret)

\* C1 amended: the same for every client method but testConnection, which on a
\* non-2xx answer returns success=false with that error's message instead of
\* failing; a 2xx answer never produces the error in any method.
C1_NonOkFailsWithStatusAndBody ==
  \A i \in Answered :
    /\ (Non2xx(inv[i].resp.status) /\ inv[i].tool # "test_connection")
         => FailedWithApiError(i)
    /\ (Non2xx(inv[i].resp.status) /\ inv[i].tool = "test_connection")
         => /\ ~inv[i].ret.threw
            /\ ~inv[i].ret.value.success
            /\ ToString(inv[i].resp.status) \in Frags(inv[i].ret.value.message)
            /\ inv[i].resp.text \in Frags(inv[i].ret.value.message)
    /\ ~Non2xx(inv[i].resp.status) => ~IsApiError(inv[i].ret)

\* A 404 with body "Not found" has failed a getIssue call.
C1_Witness ==
  \E i \in Answered :
    /\ inv[i].tool = "get_issue"
    /\ inv[i].resp.status = 404 /\ inv[i].resp.text = "Not found"
    /\ inv[i].ret = Threw("api", <<"Bugsink API error (", "404", "): ", "Not found">>)

\* The invocations whose arguments parsed: the handler ran
Validated == { i \in Slots : inv[i].pc = "awaiting" \/
                             (inv[i].pc = "done" /\ inv[i].result.kind # "validation_error") }

\* Results sent back that were no validation error
ServedValidated == { k \in 1..Len(served) : served[k] # "validation_error" }

\* C2: a tool invocation whose arguments pass validation issues exactly one HTTP
\* request, while it waits and after it has ended, in success or in failure;
\* over the run, the requests on the wire are one per such invocation.
C2_OneRequestPerInvocation ==
  /\ \A i \in Validated : Len(inv[i].reqs) = 1
  /\ wire = Cardinality(ServedValidated) + Cardinality(Validated)

\* A second invocation has failed on a 500 after a first succeeded: two requests in all.
C2_Witness ==
  \E i \in Slots :
    /\ inv[i].pc = "done" /\ inv[i].result.kind = "tool_error"
    /\ inv[i].resp.status = 500
    /\ Len(inv[i].reqs) = 1
    /\ served = <<"ok">> /\ wire = 2

\* The arguments of invocation i break its tool's schema: a required key is
\* missing, or a key holds a value of the wrong type or outside its enum.
BreaksSchema(i) ==
  LET schema == Schema(inv[i].tool)
      args   == inv[i].args
  IN \E k \in DOMAIN schema :
       \/ k \notin DOMAIN args /\ ~schema[k].optional
       \/ /\ k \in DOMAIN args
          /\ \/ schema[k].type = "number"  /\ "n" \notin DOMAIN args[k]
             \/ schema[k].type = "string"  /\ "s" \notin DOMAIN args[k]
             \/ schema[k].type = "boolean" /\ "b" \notin DOMAIN args[k]
             \/ schema[k].type = "enum" /\ ("s" \notin DOMAIN args[k] \/ args[k].s \notin schema[k].enum)

\* C3: an invocation whose arguments violate the tool's schema ends in a validation
\* error, and no HTTP request is issued for an invocation that ends in one.
C3_InvalidArgsIssueNoRequest ==
  /\ \A i \in Slots :
       (inv[i].pc # "idle" /\ BreaksSchema(i))
         => /\ inv[i].pc = "done"
            /\ inv[i].result.kind = "validation_error"
            /\ inv[i].reqs = <<>>
  /\ \A i \in Slots :
       (inv[i].pc = "done" /\ inv[i].result.kind = "validation_error") => inv[i].reqs = <<>>
  /\ (Cardinality(ServedValidated) + Cardinality(Validated) = 0) => wire = 0

\* list_issues with a sort outside its enum was rejected, after another rejected
\* invocation, and nothing has gone on the wire.
C3_Witness ==
  \E i \in Slots :
    /\ inv[i].pc = "done" /\ inv[i].tool = "list_issues"
    /\ inv[i].args = [ project_id |-> NumV(1), sort |-> StrV("newest") ]
    /\ inv[i].result.kind = "validation_error"
    /\ served = <<"validation_error">> /\ wire = 0

\* The key of a partial-update tool that names the entity
IdKey(tool) == IF tool = "update_project" THEN "project_id" ELSE "team_id"

\* C4: update_project and update_team send exactly the optional keys the caller
\* supplied, each with the caller's value, none undefined or null, none defaulted.
C4_UpdateSendsOnlySuppliedKeys ==
  \A i \in Validated :
    inv[i].tool \in {"update_project", "update_team"} =>
      LET body     == inv[i].reqs[1].body
          supplied == DOMAIN inv[i].args \ {IdKey(inv[i].tool)}
      IN /\ DOMAIN body = supplied
         /\ \A k \in supplied : body[k] = inv[i].args[k]
         /\ \A k \in DOMAIN body : body[k] # Undefined /\ body[k] # NullV

\* update_project was sent with a false flag and a zero retention and nothing else.
C4_Witness ==
  \E i \in Validated :
    /\ inv[i].tool = "update_project"
    /\ inv[i].args = [ project_id |-> NumV(1), alert_on_new_issue |-> BoolV(FALSE),
                       retention_max_event_count |-> NumV(0) ]
    /\ inv[i].reqs[1].body = [ alert_on_new_issue |-> BoolV(FALSE),
                               retention_max_event_count |-> NumV(0) ]

\* The test_connection invocations that have ended
ConnectionChecked == { i \in Slots : inv[i].pc = "done" /\ inv[i].tool = "test_connection" }

\* C5: the connectivity check never propagates an error: whatever the list-projects
\* call ended with, testConnection returns a value, success=true with the count of
\* projects or success=false with the failure text, and the tool's result is a
\* normal text starting with "Connection successful:" or "Connection failed:".
C5_ConnectionCheckNeverThrows ==
  \A i \in ConnectionChecked :
    LET r    == inv[i].ret
        resp == inv[i].resp
        good == ~resp.net /\ ~Non2xx(resp.status) /\ resp.isJson /\ "results" \in DOMAIN resp.json
    IN /\ ~r.threw
       /\ inv[i].result.kind = "ok" /\ ~inv[i].result.isError
       /\ Len(inv[i].result.text) = 1
       /\ r.value.success = good
       /\ good =>
            /\ ToString(Len(resp.json.results)) \in Frags(r.value.message)
            /\ inv[i].result.text[1] = <<"Connection successful: ">> \o r.value.message
       /\ ~good =>
            /\ inv[i].result.text[1] = <<"Connection failed: ">> \o r.value.message
            /\ (~resp.net /\ Non2xx(resp.status))
                 => r.value.message = ApiErrorMessage(resp.status, resp.text)

\* The check has reported a 500, and before that a network failure, as text.
C5_Witness ==
  \E i \in ConnectionChecked :
    /\ inv[i].resp.status = 500
    /\ inv[i].result = [ isError |-> FALSE, kind |-> "ok",
                         text |-> << <<"Connection failed: ", "Bugsink API error (",
                                       "500", "): ", "Not found">> >> ]
    /\ served = <<"ok">>

\* A required startup value is absent or empty.
StartupValueMissing ==
  \/ "BUGSINK_URL" \notin DOMAIN env
  \/ "BUGSINK_TOKEN" \notin DOMAIN env
  \/ env["BUGSINK_URL"] = <<>>
  \/ env["BUGSINK_TOKEN"] = <<>>

\* Failed invocations are failed tool results, and the process that has taken an
\* invocation is running and takes the next one.
FailuresAreResults ==
  /\ \A i \in Slots :
       inv[i].pc = "done" =>
         /\ inv[i].result.kind = "validation_error" => inv[i].result.isError
         /\ (inv[i].reqs # <<>> /\ inv[i].ret.threw)
              => /\ inv[i].result.isError
                 /\ inv[i].result.kind = "tool_error"
                 /\ inv[i].result.text = << inv[i].ret.message >>
  /\ (served # <<>> \/ \E i \in Slots : inv[i].pc # "idle")
       => phase = "serving" /\ exitCode = 0
  /\ (phase = "serving" /\ Sent < MaxServed /\ \E i \in Slots : inv[i].pc = "idle")
       => \A t \in ToolNames : ENABLED (\E i \in Slots : ToolCall(i, t))

\* C6 as stated: transport and validation errors never crash the process, the
\* server serves every later invocation, and only the startup configuration error
\* terminates the process.
C6_OnlyConfigErrorTerminates ==
  /\ FailuresAreResults
  /\ phase = "exited" => StartupValueMissing

\* C6 amended: transport and validation errors never crash the process and the
\* server serves every later invocation; only a startup failure terminates it,
\* before any invocation is served: the configuration error, or a failure of
\* main() to connect the transport.
C6_OnlyStartupFailuresTerminate ==
  /\ FailuresAreResults
  /\ phase = "exited" =>
       /\ exitCode = 1
       /\ served = <<>> /\ wire = 0
       /\ StartupValueMissing \/ (stderr # <<>> /\ stderr[Len(stderr)][1] = "Fatal error:")

\* A failed tool result went back, a later invocation was served, the server runs.
C6_Witness ==
  /\ served = <<"tool_error", "ok">>
  /\ phase = "serving" /\ exitCode = 0

\* C7: when a required startup value is absent or empty, the process exits with a
\* non-zero status before the client is constructed, before any tool is registered
\* and before any request is served, and no HTTP request is ever issued.
C7_MissingConfigExitsFirst ==
  StartupValueMissing =>
    /\ phase \in {"boot", "exited"}
    /\ phase = "boot" => (ENABLED ConfigError /\ ~ENABLED CreateClient)
    /\ phase = "exited" => (exitCode # 0 /\ stderr = UsageLines)
    /\ client = NoClient
    /\ registered = {}
    /\ \A i \in Slots : inv[i].pc = "idle"
    /\ served = <<>>
    /\ wire = 0

\* The process has exited for a missing BUGSINK_TOKEN, the URL being set.
C7_Witness ==
  /\ "BUGSINK_TOKEN" \notin DOMAIN env
  /\ "BUGSINK_URL" \in DOMAIN env /\ env["BUGSINK_URL"] # <<>>
  /\ phase = "exited" /\ exitCode = 1

\* The status of an issue, by its two flags
StatusByFlags(issue) ==
  CASE issue.is_resolved /\ issue.is_muted   -> "resolved"
    [] issue.is_resolved /\ ~issue.is_muted  -> "resolved"
    [] ~issue.is_resolved /\ issue.is_muted  -> "muted"
    [] ~issue.is_resolved /\ ~issue.is_muted -> "unresolved"

IsStatusLine(line) == Len(line) > 0 /\ line[1] = "  Status: "

\* The invocations of a tool that ended with a rendered value
Rendered(tool) ==
  { i \in Slots : inv[i].pc = "done" /\ inv[i].tool = tool /\ inv[i].result.kind = "ok" }

\* C8: the displayed status is resolved > muted > unresolved over the two flags;
\* get_issue shows it as the third line of the block, list_issues as the one
\* Status line of each issue block, in order.
C8_StatusPrecedence ==
  /\ \A i \in Rendered("get_issue") :
       /\ inv[i].result.text[3] = <<"  Status: ", StatusByFlags(inv[i].resp.json)>>
       /\ Len(SelectSeq(inv[i].result.text, IsStatusLine)) = 1
  /\ \A i \in Rendered("list_issues") :
       LET results == inv[i].resp.json.results
       IN results # <<>> =>
            SelectSeq(inv[i].result.text, IsStatusLine) =
              [ k \in 1..Len(results) |-> <<"  Status: ", StatusByFlags(results[k])>> ]

\* get_issue has shown a resolved and muted issue as resolved.
C8_Witness ==
  \E i \in Rendered("get_issue") :
    /\ inv[i].resp.json.is_resolved /\ inv[i].resp.json.is_muted
    /\ inv[i].result.text[3] = <<"  Status: ", "resolved">>

ListTools == {"list_projects", "list_teams", "list_issues", "list_events", "list_releases"}

\* The "no <resource> found" line of a list tool
NoneFound(i) ==
  CASE inv[i].tool = "list_projects" -> <<"No projects found.">>
    [] inv[i].tool = "list_teams"    -> <<"No teams found.">>
    [] inv[i].tool = "list_issues"   ->
         <<"No issues found for project ", ToString(inv[i].args.project_id.n), ".">>
    [] inv[i].tool = "list_events"   ->
         <<"No events found for issue ", inv[i].args.issue_id.s, ".">>
    [] inv[i].tool = "list_releases" ->
         <<"No releases found for project ", ToString(inv[i].args.project_id.n), ".">>

\* C9: for every list tool a successful answer with an empty results array gives
\* exactly the "no <resource> found" line as a successful result, and an error
\* answer gives a failed result that is not that line.
C9_EmptyPageIsNoneFound ==
  \A i \in Slots :
    (inv[i].pc = "done" /\ inv[i].tool \in ListTools /\ inv[i].reqs # <<>>) =>
      /\ (~inv[i].ret.threw /\ "results" \in DOMAIN inv[i].ret.value
            /\ inv[i].ret.value.results = <<>>)
           => inv[i].result = [ isError |-> FALSE, kind |-> "ok", text |-> << NoneFound(i) >> ]
      /\ inv[i].ret.threw
           => inv[i].result.isError /\ inv[i].result.text # << NoneFound(i) >>

\* list_issues has answered an empty page of project 1.
C9_Witness ==
  \E i \in Rendered("list_issues") :
    /\ inv[i].resp.json.results = <<>>
    /\ inv[i].result.text = << <<"No issues found for project ", "1", ".">> >>

IsFrameLine(line) == Len(line) > 0 /\ line[1] = "      "

\* The events get_event rendered whose first exception value has frames
WithFrames ==
  { i \in Rendered("get_event") :
      /\ "data" \in DOMAIN inv[i].resp.json
      /\ "exception" \in DOMAIN inv[i].resp.json.data
      /\ "values" \in DOMAIN inv[i].resp.json.data.exception
      /\ HasFrames(inv[i].resp.json.data.exception.values[1]) }

SourceFrames(i) == inv[i].resp.json.data.exception.values[1].stacktrace.frames

ListCalls == { i \in Validated : inv[i].tool \in {"list_issues", "list_events"} }

\* The names of the parameters of a query
ParamKeys(params) == { params[k][1] : k \in 1..Len(params) }

FilterFields == {"status", "limit", "sort", "order"}

\* Options objects a caller of listIssues can pass: each field undefined or set
ClientOptions ==
  [ status : {Undefined, StrV("unresolved")}, limit : {Undefined, NumV(5)},
    sort : {Undefined, StrV("last_seen")}, order : {Undefined, StrV("asc")} ]

\* C11: listIssues and listEvents put in the query string only the fields their
\* caller supplied: a field (status, limit, sort, order) that is undefined in the
\* options is no parameter of the request and no part of its URL, and no
\* parameter is sent with an empty value.
C11_AbsentFieldsNotSerialized ==
  /\ \A i \in ListCalls :
       LET req == inv[i].reqs[1]
       IN /\ \A k \in FilterFields \ DOMAIN inv[i].parsed :
               k \notin ParamKeys(req.params) /\ k \notin Frags(req.url)
          /\ \A n \in 1..Len(req.params) : req.params[n][2] # ""
  /\ \A o \in ClientOptions :
       LET li == listIssues(1, o)
           le == listEvents("issue-1", [ limit |-> o.limit ])
       IN /\ \A k \in FilterFields :
               o[k] = Undefined => k \notin ParamKeys(li.params) /\ k \notin Frags(Endpoint(li))
          /\ o.limit = Undefined => le.params = << <<"issue", "issue-1">> >>

\* list_issues was called with a limit and nothing else: project and limit went out.
C11_Witness ==
  \E i \in ListCalls :
    /\ inv[i].tool = "list_issues"
    /\ inv[i].args = [ project_id |-> NumV(1), limit |-> NumV(5) ]
    /\ inv[i].reqs[1].params = << <<"project", "1">>, <<"limit", "5">> >>
    /\ inv[i].reqs[1].url[Len(inv[i].reqs[1].url)] = "5"

\* The text of an argument value as a query parameter carries it
ValueText(v) == IF IsNum(v) THEN ToString(v.n) ELSE v.s

\* The <<key, value>> pairs of a query
ParamSet(params) == { params[k] : k \in 1..Len(params) }

\* C12: every filter or pagination field the caller of list_issues supplies (status,
\* limit, sort, order) is a parameter of the one request, with the supplied value,
\* next to the project parameter; list_events sends issue, and a supplied limit.
C12_SuppliedFieldsReachRemote ==
  \A i \in ListCalls :
    LET sent == ParamSet(inv[i].reqs[1].params)
        args == inv[i].args
    IN /\ inv[i].tool = "list_issues" =>
            /\ <<"project", ToString(args.project_id.n)>> \in sent
            /\ \A k \in FilterFields \cap DOMAIN args : <<k, ValueText(args[k])>> \in sent
       /\ inv[i].tool = "list_events" =>
            /\ <<"issue", args.issue_id.s>> \in sent
            /\ "limit" \in DOMAIN args => <<"limit", ValueText(args.limit)>> \in sent

\* The value a request sends for a key the host may omit: limit as a query
\* parameter, the others as keys of the JSON body.
SentLimits(i) == { q[2] : q \in { r \in ParamSet(inv[i].reqs[1].params) : r[1] = "limit" } }

\* Key k of the body of invocation i is the host's value, or d when the host gave none.
BodyKeyIs(i, k, d) ==
  LET body == inv[i].reqs[1].body
  IN /\ k \in DOMAIN body
     /\ body[k] = (IF k \in DOMAIN inv[i].args THEN inv[i].args[k] ELSE d)

\* The one limit sent by invocation i is d when the host gave none, and is never d
\* in place of a value the host gave.
LimitIs(i, d) ==
  IF "limit" \in DOMAIN inv[i].args
  THEN SentLimits(i) \subseteq { ValueText(inv[i].args.limit) }
  ELSE SentLimits(i) = { d }

\* C13: a parameter with a declared default that the caller omits is sent with the
\* default: limit=25 by list_issues, limit=10 by list_events, visibility
\* team_members and the three alert flags true by create_project, visibility
\* discoverable by create_team; a value the caller supplies is never replaced by
\* the default.
C13_DefaultsApplied ==
  \A i \in Validated :
    /\ inv[i].tool = "list_issues" => LimitIs(i, "25")
    /\ inv[i].tool = "list_events" => LimitIs(i, "10")
    /\ inv[i].tool = "create_project" =>
         /\ BodyKeyIs(i, "visibility", StrV("team_members"))
         /\ BodyKeyIs(i, "alert_on_new_issue", BoolV(TRUE))
         /\ BodyKeyIs(i, "alert_on_regression", BoolV(TRUE))
         /\ BodyKeyIs(i, "alert_on_unmute", BoolV(TRUE))
    /\ inv[i].tool = "create_team" => BodyKeyIs(i, "visibility", StrV("discoverable"))

\* list_issues was called with the project alone and limit=25 went out; before it,
\* an invocation had been answered.
C13_Witness ==
  \E i \in Validated :
    /\ inv[i].tool = "list_issues"
    /\ inv[i].args = [ project_id |-> NumV(1) ]
    /\ inv[i].reqs[1].params = << <<"project", "1">>, <<"limit", "25">> >>
    /\ served = <<"ok">>

\* What a line starts with; a blank line starts with nothing.
LinePrefix(line) == IF line = <<>> THEN "" ELSE line[1]

\* The text without the lines that start with one of the prefixes P
Dropping(text, P) == SelectSeq(text, LAMBDA l : LinePrefix(l) \notin P)

\* Some line of the text starts with one of the prefixes P
Shows(text, P) == \E n \in 1..Len(text) : LinePrefix(text[n]) \in P

\* The object without key k
Omit(o, k) == [ j \in DOMAIN o \ {k} |-> o[j] ]

\* The event without key k of its data
OmitData(event, k) ==
  IF "data" \in DOMAIN event THEN [ event EXCEPT !.data = Omit(@, k) ] ELSE event

\* The optional lines and blocks of an event, by the key of event.data they show
EventElements == {"level", "platform", "message", "exception", "request", "browser", "os"}

\* What the lines of an element start with
ElementPrefixes(k) ==
  CASE k = "level"     -> {"  Level: "}
    [] k = "platform"  -> {"  Platform: "}
    [] k = "message"   -> {"  Message: "}
    [] k = "request"   -> {"  Request: "}
    [] k = "browser"   -> {"  Browser: "}
    [] k = "os"        -> {"  OS: "}
    [] k = "exception" -> {"  Exception:", "    ", "    Stacktrace (most recent first):",
                           "      ", "        > "}

\* The field under an element is present and non-empty: the text of level,
\* platform and message, the values of exception, the url of request, the name of
\* browser and of os.
ElementPresent(event, k) ==
  /\ "data" \in DOMAIN event
  /\ k \in DOMAIN event.data
  /\ CASE k \in {"level", "platform", "message"} -> event.data[k] # ""
        [] k = "exception" -> "values" \in DOMAIN event.data.exception
        [] k = "request"   -> "url" \in DOMAIN event.data.request /\ event.data.request.url # ""
        [] k \in {"browser", "os"} ->
             "name" \in DOMAIN event.data[k] /\ event.data[k].name # ""

\* Tags and Contexts of get_event: the key holds a non-empty object
BlockPresent(event, k) ==
  "data" \in DOMAIN event /\ k \in DOMAIN event.data /\ event.data[k] # <<>>

BlockHeader(k) == IF k = "tags" THEN <<"Tags:">> ELSE <<"Contexts:">>

\* text is without seg what rest is: seg sits in text as one run of lines
RemovesRun(text, seg, rest) ==
  \E a \in 0..(Len(text) - Len(seg)) :
    /\ SubSeq(text, a + 1, a + Len(seg)) = seg
    /\ rest = SubSeq(text, 1, a) \o SubSeq(text, a + Len(seg) + 1, Len(text))

\* No line holds the text of a missing value.
NoPlaceholder(text) ==
  \A n \in 1..Len(text) : Frags(text[n]) \cap {"undefined", "null", "<null>"} = {}

BlankLines(text) == Cardinality({ n \in 1..Len(text) : text[n] = <<>> })

\* The event with the context line taken out of every frame
OmitContextLines(event) ==
  IF "data" \in DOMAIN event /\ "exception" \in DOMAIN event.data
     /\ "values" \in DOMAIN event.data.exception
  THEN LET values == event.data.exception.values
           Bare(exc) ==
             IF HasFrames(exc)
             THEN LET fs == exc.stacktrace.frames
                  IN [ exc EXCEPT !.stacktrace.frames =
                         [ m \in 1..Len(fs) |-> Omit(fs[m], "context_line") ] ]
             ELSE exc
       IN [ event EXCEPT !.data.exception.values = [ n \in 1..Len(values) |-> Bare(values[n]) ] ]
  ELSE event

\* A frame that get_event shows has a context line that is not empty.
ShownContextLine(event) ==
  /\ ElementPresent(event, "exception")
  /\ \E n \in 1..Len(event.data.exception.values) :
       LET exc == event.data.exception.values[n]
       IN /\ HasFrames(exc)
          /\ \E m \in 1..Len(exc.stacktrace.frames) :
               /\ m > Len(exc.stacktrace.frames) - 15
               /\ "context_line" \in DOMAIN exc.stacktrace.frames[m]
               /\ exc.stacktrace.frames[m].context_line # ""

\* The page with key k taken out of every item (of every item's data, for events)
OmitInPage(page, k, inData) ==
  [ page EXCEPT !.results =
      [ n \in 1..Len(page.results) |->
          IF inData THEN OmitData(page.results[n], k) ELSE Omit(page.results[n], k) ] ]

\* C14, issues and releases: the Transaction line of an issue and the Semver line
\* of a release are there exactly when the field is present and not empty, and
\* without the field the text is the same text less that line.
C14_IssueAndReleaseLines ==
  /\ \A i \in Rendered("get_issue") :
       LET issue == inv[i].resp.json
           text  == inv[i].result.text
       IN /\ Shows(text, {"  Transaction: "})
               <=> ("transaction" \in DOMAIN issue /\ issue.transaction # "")
          /\ get_issue_render(inv[i].parsed, Omit(issue, "transaction")).value
               = Dropping(text, {"  Transaction: "})
          /\ NoPlaceholder(text) /\ BlankLines(text) = 0
  /\ \A i \in Rendered("list_issues") :
       LET page == inv[i].resp.json
           text == inv[i].result.text
       IN page.results # <<>> =>
            /\ Shows(text, {"  Transaction: "})
                 <=> \E n \in 1..Len(page.results) :
                        /\ "transaction" \in DOMAIN page.results[n]
                        /\ page.results[n].transaction # ""
            /\ list_issues_render(inv[i].parsed, OmitInPage(page, "transaction", FALSE)).value
                 = Dropping(text, {"  Transaction: "})
            /\ NoPlaceholder(text)
  /\ \A i \in Rendered("get_release") :
       LET release == inv[i].resp.json
           text    == inv[i].result.text
       IN /\ Shows(text, {"  Semver: "})
               <=> ("semver" \in DOMAIN release /\ release.semver # "")
          /\ get_release_render(inv[i].parsed, Omit(release, "semver")).value
               = Dropping(text, {"  Semver: "})
          /\ NoPlaceholder(text) /\ BlankLines(text) = 0

\* C14, events: each optional line or block of an event is there exactly when its
\* field is present and not empty, and without the field the text is the same
\* text less that line or block; the Tags and Contexts blocks of get_event, each
\* led by its one blank line, are there exactly when the object is not empty.
C14_EventLines ==
  /\ \A i \in Rendered("get_event") :
       LET event == inv[i].resp.json
           text  == inv[i].result.text
           Render(e) == get_event_render(inv[i].parsed, e).value
       IN /\ \A k \in EventElements :
               /\ Shows(text, ElementPrefixes(k)) <=> ElementPresent(event, k)
               /\ Render(OmitData(event, k)) = Dropping(text, ElementPrefixes(k))
          /\ \A k \in {"tags", "contexts"} :
               IF BlockPresent(event, k)
               THEN RemovesRun(text, <<EmptyStr, BlockHeader(k)>> \o JsonPretty(event.data[k]),
                               Render(OmitData(event, k)))
               ELSE /\ Render(OmitData(event, k)) = text
                    /\ \A n \in 1..Len(text) : text[n] # BlockHeader(k)
          /\ Shows(text, {"        > "}) <=> ShownContextLine(event)
          /\ Render(OmitContextLines(event)) = Dropping(text, {"        > "})
          /\ BlankLines(text) = Cardinality({ k \in {"tags", "contexts"} : BlockPresent(event, k) })
          /\ NoPlaceholder(text)
  /\ \A i \in Rendered("list_events") :
       LET page == inv[i].resp.json
           text == inv[i].result.text
       IN page.results # <<>> =>
            /\ \A k \in EventElements :
                 /\ Shows(text, ElementPrefixes(k))
                      <=> \E n \in 1..Len(page.results) : ElementPresent(page.results[n], k)
                 /\ list_events_render(inv[i].parsed, OmitInPage(page, k, TRUE)).value
                      = Dropping(text, ElementPrefixes(k))
            /\ NoPlaceholder(text)

StacktraceHeader == <<"    Stacktrace (most recent first):">>

\* Lines that only stacktrace detail, a Tags block or a Contexts block consist of
IsDetailLine(line) ==
  \/ line \in {StacktraceHeader, <<"Tags:">>, <<"Contexts:">>, <<"{">>, <<"}">>}
  \/ LinePrefix(line) \in {"      ", "        > ", "  \""}

\* The exception values of an event that carry frames
FramedValues(event) ==
  IF ElementPresent(event, "exception")
  THEN { n \in 1..Len(event.data.exception.values) : HasFrames(event.data.exception.values[n]) }
  ELSE {}

\* text holds the run of lines seg
HoldsRun(text, seg) ==
  \E a \in 0..(Len(text) - Len(seg)) : SubSeq(text, a + 1, a + Len(seg)) = seg

\* The text get_event gives for an event has its stacktrace, one header for each
\* exception value with frames and under it the frames, and its non-empty Tags and
\* Contexts blocks.
HasDetail(event, text) ==
  /\ Len(SelectSeq(text, LAMBDA l : l = StacktraceHeader)) = Cardinality(FramedValues(event))
  /\ \A n \in FramedValues(event) :
       LET fs == event.data.exception.values[n].stacktrace.frames
       IN fs # <<>> =>
            HoldsRun(text, << StacktraceHeader, FrameLines(fs[Len(fs)])[1] >>)
  /\ \A k \in {"tags", "contexts"} :
       BlockPresent(event, k) =>
         HoldsRun(text, <<EmptyStr, BlockHeader(k)>> \o JsonPretty(event.data[k]))

EventHeader(event) ==
  << <<"Event ", event.id>>,
     <<"  Event ID: ", event.event_id>>,
     <<"  Timestamp: ", event.timestamp>>,
     <<"  Ingested: ", event.ingested_at>> >>

\* The invocations of a tool that the remote answered with 2xx and a JSON body
AnsweredOk(tool) ==
  { i \in Slots : /\ inv[i].pc = "done" /\ inv[i].tool = tool /\ inv[i].reqs # <<>>
                  /\ ~inv[i].resp.net /\ ~Non2xx(inv[i].resp.status) /\ inv[i].resp.isJson }

\* C16: an event with any of its optional parts missing (data, the exception block,
\* its values, a value's stacktrace or frames, a frame's lineno, colno or
\* context_line, request, browser, os, tags, contexts) never fails the call:
\* get_event and list_events return a successful text that holds the four header
\* lines of the event, of each event of the page.
C16_PartialEventsNeverFail ==
  /\ \A i \in AnsweredOk("get_event") :
       /\ inv[i].result.kind = "ok" /\ ~inv[i].result.isError
       /\ SubSeq(inv[i].result.text, 1, 4) = EventHeader(inv[i].resp.json)
  /\ \A i \in AnsweredOk("list_events") :
       LET page == inv[i].resp.json
           text == inv[i].result.text
       IN "results" \in DOMAIN page =>
            /\ inv[i].result.kind = "ok" /\ ~inv[i].result.isError
            /\ Len(SelectSeq(text, LAMBDA l : LinePrefix(l) = "Event ")) = Len(page.results)
            /\ \A n \in 1..Len(page.results) : HoldsRun(text, EventHeader(page.results[n]))

\* get_event has rendered the event whose one exception value has a stacktrace
\* without frames: the header, the Exception line and the value.
C16_Witness ==
  \E i \in AnsweredOk("get_event") :
    /\ inv[i].resp.json = EventNoFrames
    /\ inv[i].result =
         [ isError |-> FALSE, kind |-> "ok",
           text |-> EventHeader(EventNoFrames) \o
                    << <<"  Exception:">>, <<"    ", "TypeError", ": ", "x is undefined">> >> ]

\* The lines under the "Found N ...:" header, the blank ones left out
ItemLines(text) == SelectSeq(Tail(text), LAMBDA l : l # <<>>)

ProjectLine(p) == <<"- ", p.name, " (ID: ", ToString(p.id), ", slug: ", p.slug, ")">>

ProjectEventsLine(p) ==
  <<"  Events: ", ToString(p.stored_event_count), " stored, ",
    ToString(p.digested_event_count), " digested">>

TeamLine(t) == <<"- ", t.name, " (ID: ", t.id, ", visibility: ", t.visibility, ")">>

\* The header of a list of n items
FoundHeader(n, what) == <<"Found ", ToString(n), " ", what, "(s):">>

\* list_teams gives the header and one summary line for each team, in order.
TeamsOneLineEach ==
  \A i \in Rendered("list_teams") :
    LET results == inv[i].resp.json.results
        text    == inv[i].result.text
    IN results # <<>> =>
         /\ text[1] = FoundHeader(Len(results), "team")
         /\ ItemLines(text) = [ n \in 1..Len(results) |-> TeamLine(results[n]) ]

\* C17 as stated: list_projects and list_teams give the "Found N" header and then
\* exactly one summary line for each item, N item lines for N items.
C17_OneLinePerItem ==
  /\ TeamsOneLineEach
  /\ \A i \in Rendered("list_projects") :
       LET results == inv[i].resp.json.results
           text    == inv[i].result.text
       IN results # <<>> =>
            /\ text[1] = FoundHeader(Len(results), "project")
            /\ ItemLines(text) = [ n \in 1..Len(results) |-> ProjectLine(results[n]) ]

\* C17 amended: list_teams gives the header and one summary line for each team;
\* list_projects gives the header and two lines for each project, the summary line
\* "- <name> (ID: <id>, slug: <slug>)" and under it the line of its event counts:
\* 2N item lines for N projects.
C17_SummaryLinePerItem ==
  /\ TeamsOneLineEach
  /\ \A i \in Rendered("list_projects") :
       LET results == inv[i].resp.json.results
           text    == inv[i].result.text
       IN results # <<>> =>
            /\ text[1] = FoundHeader(Len(results), "project")
            /\ ItemLines(text) =
                 [ n \in 1..(2 * Len(results)) |->
                     IF n % 2 = 1 THEN ProjectLine(results[(n + 1) \div 2])
                                  ELSE ProjectEventsLine(results[n \div 2]) ]

\* list_projects has rendered the one project {id: 1, name: "A", slug: "a"}.
C17_Witness ==
  \E i \in Rendered("list_projects") :
    /\ Len(inv[i].resp.json.results) = 1
    /\ inv[i].result.text =
         << <<"Found ", "1", " ", "project", "(s):">>,
            <<>>,
            <<"- ", "A", " (ID: ", "1", ", slug: ", "a", ")">>,
            <<"  Events: ", "5", " stored, ", "5", " digested">> >>

\* The configured base URL, a single trailing slash removed
ConfiguredBase ==
  LET u == env["BUGSINK_URL"]
  IN IF u[Len(u)] = "/" THEN [ n \in 1..(Len(u) - 1) |-> u[n] ] ELSE u

\* What the paths of the API start with
Resources == {"/projects/", "/teams/", "/issues/", "/events/", "/releases/"}

\* C18: every request of every invocation goes to <base-url>/api/canonical/0<path>,
\* <base-url> the configured base URL with a single trailing slash removed, and
\* carries Authorization: Bearer <token> with the configured token.
C18_RequestsTargetApiRootWithBearer ==
  \A i \in Slots :
    \A n \in 1..Len(inv[i].reqs) :
      LET req  == inv[i].reqs[n]
          base == ConfiguredBase
      IN /\ Len(req.url) >= Len(base) + 2
         /\ SubSeq(req.url, 1, Len(base)) = base
         /\ req.url[Len(base) + 1] = "/api/canonical/0"
         /\ req.url[Len(base) + 2] \in Resources
         /\ req.headers.Authorization = <<"Bearer ">> \o env["BUGSINK_TOKEN"]

\* With a base URL configured with a trailing slash, getIssue has been sent to the
\* URL without it, with the configured token.
C18_Witness ==
  \E i \in Validated :
    /\ env["BUGSINK_URL"] = <<"https://bugsink.example", "/">>
    /\ env["BUGSINK_TOKEN"] = <<"tok-B">>
    /\ inv[i].reqs[1].url =
         <<"https://bugsink.example", "/api/canonical/0", "/issues/", "issue-1", "/">>
    /\ inv[i].reqs[1].headers.Authorization = <<"Bearer ", "tok-B">>

\* What a list tool calls its items
ItemWord(tool) ==
  CASE tool = "list_projects" -> "project"
    [] tool = "list_teams"    -> "team"
    [] tool = "list_issues"   -> "issue"
    [] tool = "list_events"   -> "event"
    [] tool = "list_releases" -> "release"

\* The block of lines a list tool renders for one item
ItemBlock(tool, item) ==
  CASE tool = "list_projects" -> << ProjectLine(item), ProjectEventsLine(item) >>
    [] tool = "list_teams"    -> << TeamLine(item) >>
    [] tool = "list_issues"   -> formatIssue(item)
    [] tool = "list_events"   -> formatEvent(item, FALSE)
    [] tool = "list_releases" -> ReleaseSummary(item)

\* The lines a list tool puts between two blocks
SeparatorLines(tool) ==
  CASE tool = "list_issues" -> 1
    [] tool = "list_events" -> 3
    [] OTHER                -> 0

RECURSIVE LinesBefore(_, _, _)
\* The lines of a list above its k-th block: the header, the blank line, and the
\* blocks of the items before it with their separators.
LinesBefore(tool, results, k) ==
  IF k = 1 THEN 2
  ELSE LinesBefore(tool, results, k - 1)
       + Len(ItemBlock(tool, results[k - 1])) + SeparatorLines(tool)

\* C19: a list tool renders the results as the remote returned them: the N of the
\* "Found N" header is the length of results, N blocks are rendered, and the k-th
\* block is the rendering of the k-th element of results, none dropped, doubled or
\* moved.
C19_ResultsKeepRemoteOrder ==
  \A tool \in ListTools :
    \A i \in Rendered(tool) :
      LET results == inv[i].resp.json.results
          text    == inv[i].result.text
          N       == Len(results)
      IN N > 0 =>
           /\ text[1] = FoundHeader(N, ItemWord(tool))
           /\ text[2] = <<>>
           /\ \A k \in 1..N :
                LET above == LinesBefore(tool, results, k)
                    block == ItemBlock(tool, results[k])
                IN SubSeq(text, above + 1, above + Len(block)) = block
           /\ Len(text) = LinesBefore(tool, results, N) + Len(ItemBlock(tool, results[N]))

\* list_teams has rendered the page <<team-2, team-1>> in that order.
C19_Witness ==
  \E i \in Rendered("list_teams") :
    /\ inv[i].resp.json.results = << Team("team-2", "Web"), Team("team-1", "Core") >>
    /\ inv[i].result.text =
         << <<"Found ", "2", " ", "team", "(s):">>,
            <<>>,
            <<"- ", "Web", " (ID: ", "team-2", ", visibility: ", "discoverable", ")">>,
            <<"- ", "Core", " (ID: ", "team-1", ", visibility: ", "discoverable", ")">> >>

\* The client as its constructor made it from the environment
ConstructedClient ==
  [ baseUrl |-> ConfiguredBase, apiToken |-> env["BUGSINK_TOKEN"] ]

\* The request an invocation of a tool with parsed arguments a issues when it is
\* the only one
AloneRequest(tool, a) ==
  [ url     |-> ConstructedClient.baseUrl \o <<"/api/canonical/0">> \o Endpoint(CallOf(tool, a)),
    method  |-> CallOf(tool, a).method,
    headers |-> [ Authorization |-> <<"Bearer ">> \o env["BUGSINK_TOKEN"],
                  ContentType   |-> <<"application/json">> ],
    params  |-> CallOf(tool, a).params,
    body    |-> CallOf(tool, a).body ]

\* The result of an invocation that is the only one, by its tool, its arguments
\* and the remote's answer to its request
AloneResult(tool, args, resp) ==
  IF ~ValidArgs(Schema(tool), args) THEN ValidationError(tool)
  ELSE ToolResult(HandlerOutcome(tool, ParsedArgs(Schema(tool), args), resp))

\* C20: invocations share no mutable state: the client's base URL and credential
\* are those set at construction whatever has run; with several invocations open
\* and their answers arriving in any order, each invocation's request and result
\* are those it has when it runs alone with the same answer, and no answer given
\* to one is used for another.
C20_InvocationsIndependent ==
  /\ client # NoClient => client = ConstructedClient
  /\ \A i \in Slots :
       /\ inv[i].pc = "awaiting" =>
            inv[i].reqs = << AloneRequest(inv[i].tool, ParsedArgs(Schema(inv[i].tool), inv[i].args)) >>
       /\ inv[i].pc = "done" =>
            /\ inv[i].result = AloneResult(inv[i].tool, inv[i].args, inv[i].resp)
            /\ inv[i].reqs # <<>> =>
                 inv[i].reqs = << AloneRequest(inv[i].tool,
                                               ParsedArgs(Schema(inv[i].tool), inv[i].args)) >>

\* Two invocations of get_issue are open; the request sent second has been
\* answered, with the muted issue, while the one sent first still waits.
C20_Witness ==
  \E i, j \in Slots :
    /\ inv[i].seq = 1 /\ inv[j].seq = 2
    /\ inv[i].tool = "get_issue" /\ inv[j].tool = "get_issue"
    /\ inv[i].pc = "awaiting"
    /\ inv[j].pc = "done"
    /\ inv[j].resp = JsonAnswer(200, IssueCore(FALSE, TRUE))
    /\ inv[j].result.text[3] = <<"  Status: ", "muted">>

\* The tokens a run can be configured with
ConfiguredTokens == { t \in TokenValues : TruthyStr(t) }

\* The environment of the run that differs from this one in the token only
WithToken(t) == [ env EXCEPT !["BUGSINK_TOKEN"] = t ]

\* A line of output that holds a piece of a configured token
MentionsToken(line) == \E t \in ConfiguredTokens : Frags(line) \cap Frags(t) # {}

\* The lines a configured run under the environment e has written to stderr at
\* this point of the startup
StartupLines(e) ==
  IF phase = "serving"
  THEN << <<"Bugsink MCP server started">>, <<"Connected to: ">> \o EnvGet(e, "BUGSINK_URL") >>
  ELSE IF phase = "exited" THEN << <<"Fatal error:", "connect failed">> >>
       ELSE <<>>

\* The requests the handler of a tool issues in the run under the environment e
RequestsWith(e, tool, a) ==
  FetchRequests(NewBugsinkClient([ baseUrl  |-> EnvGet(e, "BUGSINK_URL"),
                                   apiToken |-> EnvGet(e, "BUGSINK_TOKEN") ]),
                CallOf(tool, a))

\* Requests with their Authorization header left out
HidingAuthorization(reqs) ==
  [ n \in 1..Len(reqs) |-> [ reqs[n] EXCEPT !.headers.Authorization = <<>> ] ]

\* C21: the configured token goes into the Authorization header of the requests and
\* nowhere else: in the run that differs in the token only and is given the same
\* invocations and the same answers, the lines on stderr are the same, every request
\* is the same but for its Authorization header, and every tool result (failed
\* requests and the connection report included) is the same; no piece of a token
\* is in a line of stderr, in a tool result, or in a request's URL or query.
C21_TokenOnlyInAuthorization ==
  /\ \A n \in 1..Len(stderr) : ~MentionsToken(stderr[n])
  /\ \A i \in Slots :
       /\ \A n \in 1..Len(inv[i].reqs) :
            /\ ~MentionsToken(inv[i].reqs[n].url)
            /\ \A k \in 1..Len(inv[i].reqs[n].params) : ~MentionsToken(inv[i].reqs[n].params[k])
       /\ inv[i].pc = "done" =>
            \A n \in 1..Len(inv[i].result.text) : ~MentionsToken(inv[i].result.text[n])
  /\ ~ConfigMissing(env) =>
       \A t \in ConfiguredTokens :
         /\ ~ConfigMissing(WithToken(t))
         /\ stderr = StartupLines(WithToken(t))
         /\ \A i \in Slots :
              /\ inv[i].reqs # <<>> =>
                   /\ inv[i].reqs = RequestsWith(env, inv[i].tool, inv[i].parsed)
                   /\ HidingAuthorization(inv[i].reqs) =
                        HidingAuthorization(RequestsWith(WithToken(t), inv[i].tool, inv[i].parsed))
                   /\ RequestsWith(WithToken(t), inv[i].tool, inv[i].parsed)[1].headers.Authorization
                        = <<"Bearer ">> \o t
              /\ inv[i].pc = "done" =>
                   inv[i].result = AloneResult(inv[i].tool, inv[i].args, inv[i].resp)

\* Configured with the token tok-B, the server has started; test_connection went out
\* with Bearer tok-B, the request failed below HTTP, and the report went back.
C21_Witness ==
  /\ ~ConfigMissing(env)
  /\ env["BUGSINK_TOKEN"] = <<"tok-B">>
  /\ stderr = << <<"Bugsink MCP server started">>,
                 <<"Connected to: ", "https://bugsink.example">> >>
  /\ \E i \in Slots :
       /\ inv[i].pc = "done"
       /\ inv[i].tool = "test_connection"
       /\ inv[i].reqs[1].headers.Authorization = <<"Bearer ", "tok-B">>
       /\ inv[i].resp = NetworkFailure
       /\ inv[i].result.text = << <<"Connection failed: ", "fetch failed">> >>

====
